---- MODULE Spec2Model ----
(***************************************************************************)
(* Circuit-breaker HTTP clients of the ai-programming-course repository.   *)
(*                                                                         *)
(* Part 1: ResilientClient with HttpResult                                 *)
(*         (modulo-1-fundamentos/taller/src/types/index.ts, lines 672-934) *)
(*                                                                         *)
(* The client is used from single-threaded asynchronous code: get()/post() *)
(* run synchronously up to the first await (the fetch), are resumed when   *)
(* the fetch settles, and once more when response.json() settles.  Several *)
(* requests can therefore be in flight against the same breaker.           *)
(*                                                                         *)
(* Part 2: ResilientHttpClient with its CircuitBreaker and metrics         *)
(*         (unnamed/part_009)                                              *)
(*                                                                         *)
(* Part 3: ResilientClient.getJson with its CircuitBreaker                 *)
(*         (Architecture.md, src/resilient-client.ts listing)              *)
(*                                                                         *)
(* Part 4: ResilientClient.getUserData with execute/success/failure        *)
(*         (modulo-1-fundamentos/taller/src/resilient-client.ts)           *)
(*                                                                         *)
(* Part 5: the first ResilientClient of unnamed/part_006                   *)
(*                                                                         *)
(* Part 6: the module-level breaker of unnamed/part_008                    *)
(*         (fetchWithCircuitBreaker, getUserProfile, updateUserStatus)     *)
(*                                                                         *)
(* Part 7: ResilientClient.get with retries                                *)
(*         (modulo-1-fundamentos/taller/src/http/resilient-client.ts)      *)
(*                                                                         *)
(* Part 8: ResilientClient with nextAttemptTime (unnamed/part_010)         *)
(*                                                                         *)
(* Each part is a client of its own, with its own variables and its own    *)
(* specification; under the specification of one part the variables of the *)
(* other parts stay NULL (no such client has been constructed).            *)
(***************************************************************************)
EXTENDS Integers, Sequences, FiniteSets, Bags, TLC

(* ---------------------------- bounds ----------------------------------- *)
MaxThreshold == 2      \* failureThreshold is drawn from 1..MaxThreshold
MaxCooldown  == 2      \* halfOpenAfterMs is drawn from 1..MaxCooldown
MaxTime      == 3      \* the clock Date.now() runs over 0..MaxTime
MaxRequests  == 4      \* number of admitted requests in one behaviour

HttpMaxThreshold == 3  \* part 2: config.failureThreshold is drawn from 1..HttpMaxThreshold
HttpMaxElapsed   == 1  \* part 2: milliseconds the clock runs besides one request deadline
HttpMaxCalls     == 5  \* part 2: number of getUserData calls that reach the breaker
HttpMaxInFlight  == 2  \* part 2: number of getUserData calls suspended at the same time

ArchMaxTrigger  == 2   \* part 3: failureTriggers is {n} with n drawn from 1..ArchMaxTrigger
ArchMaxBytes    == 2   \* part 3: maxResponseBytes is drawn from 1..ArchMaxBytes
ArchMaxRequests == 4   \* part 3: number of getJson calls that pass beforeRequest()

TallerMaxElapsed  == 2 \* part 4: milliseconds the clock runs besides one cooldown
TallerMaxCalls    == 5 \* part 4: number of getUserData calls that reach execute()
TallerMaxInFlight == 2 \* part 4: number of getUserData calls suspended at the same time

FirstMaxThreshold == 3 \* part 5: config.failureThreshold is drawn from 1..FirstMaxThreshold
FirstMaxCalls     == 4 \* part 5: number of getUserData calls that pass the userId check
FirstMaxCooldowns == 1 \* part 5: number of resetTimeoutMs periods the clock runs

ModMaxCalls     == 5   \* part 6: number of calls of fetchWithCircuitBreaker
ModMaxCooldowns == 1   \* part 6: number of RESET_TIMEOUT periods the clock runs

RetryMaxRetries == 2   \* part 7: config.maxRetries is drawn from 0..RetryMaxRetries, or left out
RetryMaxCalls   == 2   \* part 7: number of get() calls in one behaviour

NaMaxThreshold == 2    \* part 8: config.failureThreshold is drawn from 1..NaMaxThreshold
NaMaxReset     == 2    \* part 8: config.resetTimeout is drawn from 1..NaMaxReset
NaMaxTime      == 4    \* part 8: the clock Date.now() runs over 1..NaMaxTime
NaMaxCalls     == 4    \* part 8: number of getUserData calls in one behaviour
PayMaxCalls     == 4   \* part 9: number of processPayment calls in one behaviour
PayMaxElapsed   == 1   \* part 9: milliseconds around a whole number of cooldowns
PayMaxCooldowns == 1   \* part 9: whole cooldowns the clock runs over
UdMaxCalls      == 5   \* part 10: number of getUserData calls in one behaviour
UdMaxElapsed    == 1   \* part 10: milliseconds after a whole number of cooldowns
UdMaxCooldowns  == 1   \* part 10: whole cooldowns the clock runs over
SvcMaxCalls     == 5   \* part 11: number of getUserData calls in one behaviour
SvcMaxElapsed   == 1   \* part 11: milliseconds after a whole number of cooldowns
SvcMaxCooldowns == 1   \* part 11: whole cooldowns the clock runs over

(* ---------------------------- values ----------------------------------- *)
CLOSED    == "CLOSED"
OPEN      == "OPEN"
HALF_OPEN == "HALF_OPEN"
CircuitState == {CLOSED, OPEN, HALF_OPEN}

NULL == -1             \* null of `lastFailureTime: number | null'

VARIABLES
  failureThreshold,        \* options.failureThreshold
  halfOpenAfterMs,         \* options.halfOpenAfterMs
  state,                   \* this.state
  failureCount,            \* this.failureCount
  lastFailureTime,         \* this.lastFailureTime
  halfOpenProbeInProgress, \* this.halfOpenProbeInProgress
  now,                     \* Date.now()
  requests,                \* bag of the admitted requests suspended at an await
  admittedCount,           \* number of requests admitted so far
  fetchCalls,              \* number of calls of the global fetch
  hist,                    \* history: what the breaker has been through
  last                     \* history: the most recent operation

\* Part 2 (ResilientHttpClient of unnamed/part_009)
VARIABLES
  cb,                      \* the client's CircuitBreaker: fields, metrics, config
  httpNow,                 \* Date.now(), and the time base of setTimeout
  calls,                   \* bag of the getUserData calls suspended at an await
  httpHist,                \* history: constructor argument, failure streak, openings
  httpLast                 \* history: the most recent operation

httpVars == <<cb, httpNow, calls, httpHist, httpLast>>

\* Part 3 (ResilientClient of Architecture.md)
VARIABLES
  circuit,                 \* this.circuit: the CircuitBreaker's fields
  maxResponseBytes,        \* options.maxResponseBytes
  jsonCalls,               \* bag of the getJson calls suspended at an await
  jsonHist,                \* history: calls admitted, outcomes reported
  jsonLast                 \* history: the most recent operation

archVars == <<circuit, maxResponseBytes, jsonCalls, jsonHist, jsonLast>>

\* Part 4 (ResilientClient of taller/src/resilient-client.ts)
VARIABLES
  tallerBreaker,           \* this.state, this.failureCount, this.lastFailureTime
  tallerNow,               \* Date.now(), and the time base of the timers
  tallerCalls,             \* bag of the getUserData calls suspended at an await
  tallerCount,             \* number of getUserData calls that reached execute()
  tallerLast               \* history: the most recent operation

tallerVars == <<tallerBreaker, tallerNow, tallerCalls, tallerCount, tallerLast>>

\* No ResilientClient of taller/src/resilient-client.ts has been constructed.
NoTallerClient ==
  /\ tallerBreaker = NULL /\ tallerNow = NULL /\ tallerCalls = NULL
  /\ tallerCount = NULL /\ tallerLast = NULL

\* Part 5 (the first ResilientClient of unnamed/part_006)
VARIABLES
  rc,                      \* this.state, failureCount, lastFailureTime, failureThreshold
  rcNow,                   \* Date.now()
  rcCalls,                 \* bag of the getUserData calls suspended at an await
  rcCount,                 \* number of getUserData calls that passed the userId check
  rcHist                   \* history: failures since the last success, last operation

rcVars == <<rc, rcNow, rcCalls, rcCount, rcHist>>

\* No ResilientClient of unnamed/part_006 has been constructed.
NoFirstClient ==
  /\ rc = NULL /\ rcNow = NULL /\ rcCalls = NULL /\ rcCount = NULL
  /\ rcHist = NULL

\* Part 6 (the module-level breaker of unnamed/part_008)
VARIABLES
  modBreaker,              \* state, consecutiveFailures, lastFailureTime
  modNow,                  \* Date.now()
  modCalls,                \* bag of the calls suspended at an await
  modCount,                \* number of calls of fetchWithCircuitBreaker
  modLast                  \* history: the most recent operation

modVars == <<modBreaker, modNow, modCalls, modCount, modLast>>

\* The module of unnamed/part_008 has not been loaded.
NoModule ==
  /\ modBreaker = NULL /\ modNow = NULL /\ modCalls = NULL
  /\ modCount = NULL /\ modLast = NULL

\* Part 7 (ResilientClient of taller/src/http/resilient-client.ts)
VARIABLES
  retryClient,             \* this.maxRetries, this.retryDelay
  getCalls,                \* bag of the get() calls suspended at an await
  getCount,                \* number of get() calls so far
  getLast                  \* history: the most recent operation

retryVars == <<retryClient, getCalls, getCount, getLast>>

\* No ResilientClient of taller/src/http/resilient-client.ts has been
\* constructed.
NoRetryClient ==
  /\ retryClient = NULL /\ getCalls = NULL /\ getCount = NULL
  /\ getLast = NULL

\* Part 8 (ResilientClient of unnamed/part_010)
VARIABLES
  naClient,                \* this.state, failureCount, lastFailureTime, nextAttemptTime, config
  naNow,                   \* Date.now()
  naCalls,                 \* bag of the getUserData calls suspended at an await
  naCount,                 \* number of getUserData calls so far
  naLast                   \* history: the most recent operation

naVars == <<naClient, naNow, naCalls, naCount, naLast>>

\* No ResilientClient of unnamed/part_010 has been constructed.
NoNextAttemptClient ==
  /\ naClient = NULL /\ naNow = NULL /\ naCalls = NULL /\ naCount = NULL
  /\ naLast = NULL

\* Part 9 (the second ResilientClient of unnamed/part_006)
VARIABLES
  payClient,               \* this.state, failureCount, lastFailureTime
  payNow,                  \* Date.now()
  payCalls,                \* bag of the processPayment calls suspended at an await
  payCount,                \* number of processPayment calls so far
  payLast                  \* history: the most recent operation

payVars == <<payClient, payNow, payCalls, payCount, payLast>>

\* No second ResilientClient of unnamed/part_006 has been constructed.
NoPaymentClient ==
  /\ payClient = NULL /\ payNow = NULL /\ payCalls = NULL /\ payCount = NULL
  /\ payLast = NULL

\* Part 10 (CircuitBreaker of unnamed/part_004, getUserData of unnamed/part_007)
VARIABLES
  circuitBreaker,          \* state, failureCount, nextAttempt, constructor arguments
  udNow,                   \* Date.now()
  udCalls,                 \* bag of the getUserData calls suspended at an await
  udCount,                 \* number of getUserData calls so far
  udLast                   \* history: the most recent operation

udVars == <<circuitBreaker, udNow, udCalls, udCount, udLast>>

\* The module of unnamed/part_007 has not been loaded.
NoUserDataModule ==
  /\ circuitBreaker = NULL /\ udNow = NULL /\ udCalls = NULL
  /\ udCount = NULL /\ udLast = NULL

\* Part 11 (CircuitBreaker<T> of UserService, found-vulnerabilities.md)
VARIABLES
  svcBreaker,              \* this.state, failureCount, lastFailureTime
  svcNow,                  \* Date.now()
  svcCalls,                \* number of execute() calls awaiting operation()
  svcCount,                \* number of execute() calls so far
  svcLast                  \* history: the most recent operation

svcVars == <<svcBreaker, svcNow, svcCalls, svcCount, svcLast>>

\* No UserService has been constructed.
NoUserService ==
  /\ svcBreaker = NULL /\ svcNow = NULL /\ svcCalls = NULL
  /\ svcCount = NULL /\ svcLast = NULL

\* The clients of parts 9 and later.
lastVars == <<payVars, udVars, svcVars>>
NoLastClient == NoPaymentClient /\ NoUserDataModule /\ NoUserService

\* The clients of parts 4 and later.
laterVars == <<tallerVars, rcVars, modVars, retryVars, naVars, lastVars>>
NoLaterClient ==
  /\ NoTallerClient /\ NoFirstClient /\ NoModule /\ NoRetryClient
  /\ NoNextAttemptClient /\ NoLastClient

\* No ResilientClient of Architecture.md has been constructed.
NoJsonClient ==
  /\ circuit = NULL /\ maxResponseBytes = NULL /\ jsonCalls = NULL
  /\ jsonHist = NULL /\ jsonLast = NULL

\* No ResilientHttpClient has been constructed.
NoHttpClient ==
  /\ cb = NULL /\ httpNow = NULL /\ calls = NULL
  /\ httpHist = NULL /\ httpLast = NULL

breakerVars == <<state, failureCount, lastFailureTime, halfOpenProbeInProgress>>
configVars  == <<failureThreshold, halfOpenAfterMs>>
vars == <<failureThreshold, halfOpenAfterMs, state, failureCount,
          lastFailureTime, halfOpenProbeInProgress, now, requests,
          admittedCount, fetchCalls, hist, last>>
allVars == <<vars, httpVars, archVars, laterVars>>
\* The variables of the other parts, for each part.
rest1 == <<httpVars, archVars, laterVars>>
rest2 == <<vars, archVars, laterVars>>
rest3 == <<vars, httpVars, laterVars>>
rest4 == <<vars, httpVars, archVars, rcVars, modVars, retryVars, naVars,
          lastVars>>
rest5 == <<vars, httpVars, archVars, tallerVars, modVars, retryVars, naVars,
          lastVars>>
rest6 == <<vars, httpVars, archVars, tallerVars, rcVars, retryVars, naVars,
          lastVars>>
rest7 == <<vars, httpVars, archVars, tallerVars, rcVars, modVars, naVars,
          lastVars>>
rest8 == <<vars, httpVars, archVars, tallerVars, rcVars, modVars, retryVars,
          lastVars>>
earlierVars == <<vars, httpVars, archVars, tallerVars, rcVars, modVars,
                 retryVars, naVars>>
rest9  == <<earlierVars, udVars, svcVars>>
rest10 == <<earlierVars, payVars, svcVars>>
rest11 == <<earlierVars, payVars, udVars>>

\* The breaker fields of a ResilientClient instance, as one value.
Breaker ==
  [state |-> state, failureCount |-> failureCount,
   lastFailureTime |-> lastFailureTime,
   halfOpenProbeInProgress |-> halfOpenProbeInProgress]

\* Field initialisers of the class: the state right after construction.
InitialBreaker ==
  [state |-> CLOSED, failureCount |-> 0, lastFailureTime |-> NULL,
   halfOpenProbeInProgress |-> FALSE]

SetBreaker(b) ==
  /\ state' = b.state
  /\ failureCount' = b.failureCount
  /\ lastFailureTime' = b.lastFailureTime
  /\ halfOpenProbeInProgress' = b.halfOpenProbeInProgress

(* ------------------------- the state machine ---------------------------- *)

\* getState(): returns the stored state, without looking at the clock.
getState(b) == b.state

\* Mutant: forgets the fail-fast branch of OPEN.
checkCircuitState_NoFailFast(b, t) ==
  LET b1 == IF /\ b.state = OPEN
               /\ b.lastFailureTime # NULL
               /\ t - b.lastFailureTime >= halfOpenAfterMs
            THEN [b EXCEPT !.state = HALF_OPEN, !.halfOpenProbeInProgress = FALSE]
            ELSE b
  IN  IF b1.state \in {CLOSED, OPEN}
      THEN [b |-> b1, ok |-> TRUE, error |-> ""]
      ELSE IF b1.halfOpenProbeInProgress
           THEN [b |-> b1, ok |-> FALSE, error |-> "HalfOpenProbeRejected"]
           ELSE [b |-> [b1 EXCEPT !.halfOpenProbeInProgress = TRUE],
                 ok |-> TRUE, error |-> ""]

\* checkCircuitState(): the lazy OPEN -> HALF_OPEN transition, then the gate.
checkCircuitState(b, t) ==
  LET b1 == IF /\ b.state = OPEN
               /\ b.lastFailureTime # NULL
               /\ t - b.lastFailureTime >= halfOpenAfterMs
            THEN [b EXCEPT !.state = HALF_OPEN, !.halfOpenProbeInProgress = FALSE]
            ELSE b
  IN  IF b1.state = CLOSED
      THEN [b |-> b1, ok |-> TRUE, error |-> ""]
      ELSE IF b1.state = OPEN
      THEN [b |-> b1, ok |-> FALSE, error |-> "CircuitOpenFailFast"]
      ELSE IF b1.halfOpenProbeInProgress
           THEN [b |-> b1, ok |-> FALSE, error |-> "HalfOpenProbeRejected"]
           ELSE [b |-> [b1 EXCEPT !.halfOpenProbeInProgress = TRUE],
                 ok |-> TRUE, error |-> ""]

\* Mutant: opens one failure late (> instead of >=).
handleFailure_Late(b, t) ==
  LET b1 == [b EXCEPT !.failureCount = @ + 1, !.lastFailureTime = t]
      b2 == IF b1.state = CLOSED /\ b1.failureCount > failureThreshold
            THEN [b1 EXCEPT !.state = OPEN] ELSE b1
  IN  IF b2.state = HALF_OPEN
      THEN [b2 EXCEPT !.state = OPEN, !.halfOpenProbeInProgress = FALSE]
      ELSE b2

\* handleFailure(): count, stamp, CLOSED -> OPEN at the threshold,
\* HALF_OPEN -> OPEN.
handleFailure(b, t) ==
  LET b1 == [b EXCEPT !.failureCount = @ + 1, !.lastFailureTime = t]
      b2 == IF b1.state = CLOSED /\ b1.failureCount >= failureThreshold
            THEN [b1 EXCEPT !.state = OPEN] ELSE b1
  IN  IF b2.state = HALF_OPEN
      THEN [b2 EXCEPT !.state = OPEN, !.halfOpenProbeInProgress = FALSE]
      ELSE b2

\* Mutant: closes the circuit without clearing the count.
handleSuccess_KeepsFailureCount(b) ==
  LET b1 == [b EXCEPT !.lastFailureTime = NULL]
      b2 == IF b1.state = HALF_OPEN THEN [b1 EXCEPT !.state = CLOSED] ELSE b1
  IN  [b2 EXCEPT !.halfOpenProbeInProgress = FALSE]

\* Mutant: leaves the probe latch set and the state HALF_OPEN.
handleSuccess_KeepsLatch(b) ==
  [b EXCEPT !.failureCount = 0, !.lastFailureTime = NULL]

\* handleSuccess(): clear the count and the stamp, HALF_OPEN -> CLOSED,
\* release the probe latch.
handleSuccess(b) ==
  LET b1 == [b EXCEPT !.failureCount = 0, !.lastFailureTime = NULL]
      b2 == IF b1.state = HALF_OPEN THEN [b1 EXCEPT !.state = CLOSED] ELSE b1
  IN  [b2 EXCEPT !.halfOpenProbeInProgress = FALSE]

\* Mutant: forgets to release the probe latch.
reset_KeepsLatch(b) ==
  [b EXCEPT !.state = CLOSED, !.failureCount = 0, !.lastFailureTime = NULL]

\* reset(): the four assignments.
reset(b) ==
  [b EXCEPT !.state = CLOSED, !.failureCount = 0, !.lastFailureTime = NULL,
            !.halfOpenProbeInProgress = FALSE]

(* ------------------------ request(): the outcomes ----------------------- *)

\* What the awaited fetch can settle with: a Response (ok or not), or a throw
\* (the AbortError of the timeout, or any other error of the transport).
Resp(isOk, status) ==
  [kind |-> "response", ok |-> isOk, status |-> status, name |-> "", message |-> ""]
Throw(name, message) ==
  [kind |-> "throw", ok |-> FALSE, status |-> 0, name |-> name, message |-> message]
FetchOutcomes ==
  { Resp(TRUE, 200), Resp(FALSE, 500),
    Throw("AbortError", "This operation was aborted"),
    Throw("TypeError", "fetch failed"),
    Throw("Error", "Timeout") }

\* What `await response.json()' followed by the optional schema.parse() can do.
JsonOutcomes == {"invalidJson", "noSchema", "schemaPass", "schemaFail"}

statusText(status) == IF status = 500 THEN "Internal Server Error" ELSE "OK"
StatusString(status) == IF status = 500 THEN "500" ELSE "200"

Ok(status)  == [ok |-> TRUE,  status |-> status, error |-> ""]
Err(status, error) == [ok |-> FALSE, status |-> status, error |-> error]

\* The result of one resumption of request():
\*   b        the breaker afterwards
\*   returned whether request() has returned (else it is suspended again)
\*   result   the HttpResult returned
\*   reports  how many times handleSuccess()/handleFailure() were called
\*   fetched  whether fetch was called
Step(b, returned, result, reports, fetched) ==
  [b |-> b, returned |-> returned, result |-> result, reports |-> reports,
   fetched |-> fetched]

\* Mutant: counts a rejected request as a failure.
requestEnter_CountsRejection(b, t, builds) ==
  LET c == checkCircuitState(b, t)
  IN  IF ~c.ok
      THEN Step(handleFailure(c.b, t), TRUE, Err(0, c.error), 0, FALSE)
      ELSE IF ~builds
      THEN Step(handleFailure(c.b, t), TRUE,
                Err(0, "Request failed: " \o "Invalid URL"), 1, FALSE)
      ELSE Step(c.b, FALSE, Ok(0), 0, TRUE)

\* request(), from its entry to the first await: the gate, `new URL' and
\* JSON.stringify (either may throw into the outer catch), the call of fetch.
requestEnter(b, t, builds) ==
  LET c == checkCircuitState(b, t)
  IN  IF ~c.ok
      THEN Step(c.b, TRUE, Err(0, c.error), 0, FALSE)
      ELSE IF ~builds
      THEN Step(handleFailure(c.b, t), TRUE,
                Err(0, "Request failed: " \o "Invalid URL"), 1, FALSE)
      ELSE Step(c.b, FALSE, Ok(0), 0, TRUE)

\* Mutant: swallows a transport error and returns null, as the legacy client did.
requestAfterFetch_ReturnsNull(b, t, o) ==
  IF o.kind = "throw"
  THEN Step(handleFailure(b, t), TRUE, [ok |-> FALSE, status |-> 0, error |-> ""], 1, FALSE)
  ELSE IF ~o.ok
  THEN Step(handleFailure(b, t), TRUE,
            Err(o.status, "HTTP " \o StatusString(o.status) \o ": " \o statusText(o.status)),
            1, FALSE)
  ELSE Step(b, FALSE, Ok(o.status), 0, FALSE)

\* request(), resumed when fetchWithTimeout() settles.
requestAfterFetch(b, t, o) ==
  IF o.kind = "throw"
  THEN LET errorMessage == IF o.name = "AbortError" THEN "Timeout" ELSE o.message
       IN  Step(handleFailure(b, t), TRUE,
                Err(0, "Request failed: " \o errorMessage), 1, FALSE)
  ELSE IF ~o.ok
  THEN Step(handleFailure(b, t), TRUE,
            Err(o.status, "HTTP " \o StatusString(o.status) \o ": " \o statusText(o.status)),
            1, FALSE)
  ELSE Step(b, FALSE, Ok(o.status), 0, FALSE)

\* Mutant: reports the success before the schema is applied, so a schema
\* rejection reports twice.
requestAfterJson_EarlySuccess(b, t, status, o) ==
  IF o = "invalidJson"
  THEN Step(handleFailure(b, t), TRUE, Err(status, "Invalid JSON: Unexpected token"), 1, FALSE)
  ELSE IF o = "schemaFail"
  THEN Step(handleFailure(handleSuccess(b), t), TRUE,
            Err(status, "Schema validation failed: invalid"), 2, FALSE)
  ELSE Step(handleSuccess(b), TRUE, Ok(status), 1, FALSE)

\* request(), resumed when response.json() settles; the schema, if any, is
\* applied in the same turn.
requestAfterJson(b, t, status, o) ==
  IF o = "invalidJson"
  THEN Step(handleFailure(b, t), TRUE, Err(status, "Invalid JSON: Unexpected token"), 1, FALSE)
  ELSE IF o = "schemaFail"
  THEN Step(handleFailure(b, t), TRUE,
            Err(status, "Schema validation failed: invalid"), 1, FALSE)
  ELSE Step(handleSuccess(b), TRUE, Ok(status), 1, FALSE)

(* ------------------------------ history -------------------------------- *)
\* History variables record what happened; no action reads them.
\*   openedAt      time of the latest entry into OPEN, NULL when not OPEN
\*   run           failures reported since the breaker was last CLOSED with
\*                 failureCount 0 and no success or reset() since; -1 when the
\*                 latest success left the breaker in another state
\*   opens         CLOSED -> OPEN transitions during that run
\*   openedAtRun   the value of run at the latest such transition, 0 if none
\*   probeFailedAt time at which a request admitted as the probe last reported
\*                 a failure, NULL if none since construction or reset()
\*   reported      calls of handleSuccess()/handleFailure() so far
InitialHist ==
  [openedAt |-> NULL, run |-> 0, opens |-> 0, openedAtRun |-> 0,
   probeFailedAt |-> NULL, reported |-> 0]

\* The breaker went from `from' to `to' at time t.
Moved(h, from, to, t) ==
  [h EXCEPT !.openedAt = IF to.state # OPEN THEN NULL
                         ELSE IF from.state # OPEN THEN t ELSE @]

\* handleFailure() took the breaker from `from' to `to' for a request of `kind'.
Failed(h, from, to, t, kind) ==
  LET opened == from.state = CLOSED /\ to.state = OPEN
      run1   == IF h.run >= 0 THEN h.run + 1 ELSE h.run
      h1     == Moved(h, from, to, t)
  IN  [h1 EXCEPT !.run = run1,
                 !.opens = IF opened THEN @ + 1 ELSE @,
                 !.openedAtRun = IF opened THEN run1 ELSE @,
                 !.probeFailedAt = IF kind = "probe" THEN t ELSE @]

\* handleSuccess() took the breaker from `from' to `to'.
Succeeded(h, from, to, t) ==
  LET h1 == Moved(h, from, to, t)
  IN  [h1 EXCEPT !.run = IF to.state = CLOSED THEN 0 ELSE -1,
                 !.opens = 0, !.openedAtRun = 0]

\* reset() was called.
WasReset(h, from, to, t) ==
  LET h1 == Moved(h, from, to, t)
  IN  [h1 EXCEPT !.run = IF to.state = CLOSED THEN 0 ELSE -1,
                 !.opens = 0, !.openedAtRun = 0, !.probeFailedAt = NULL]

\* Has the cooldown elapsed since the breaker entered OPEN?
Cooled == state = OPEN /\ hist.openedAt # NULL /\ now - hist.openedAt >= halfOpenAfterMs

\* Is `now' less than the cooldown after the latest failure of a probe?
InProbeCooldown == hist.probeFailedAt # NULL /\ now - hist.probeFailedAt < halfOpenAfterMs

\* The most recent operation on the client (a call of get()/post(), the
\* return of one, or reset()):
\*   op       "request" (entry of get()/post()), "settle" (a suspended request
\*            returned), "reset", "getState", "none"
\*   pre      the state before it; cooled, probeCooldown: Cooled and
\*            InProbeCooldown before it
\*   admitted how checkCircuitState() admitted the call: "closed", "probe",
\*            or "no"
\*   kind     how the request concerned had been admitted
\*   returned whether the call has returned, with result ok/error
\*   fetched  whether fetch was called; reports: handler calls made
\*   post     the state after it; ret: the value getState() returned
\*   prev     what the operation before it was
NoLast ==
  [op |-> "none", pre |-> CLOSED, cooled |-> FALSE, probeCooldown |-> FALSE,
   admitted |-> "no", kind |-> "none", returned |-> FALSE, ok |-> FALSE,
   error |-> "", fetched |-> FALSE, reports |-> 0, post |-> CLOSED,
   ret |-> CLOSED, prev |-> "none"]

\* getState() changes nothing: the operation before it stays the previous one.
Class(l) ==
  IF l.op = "getState" THEN l.prev
  ELSE IF l.op = "reset" THEN "reset"
  ELSE IF l.kind = "probe" /\ l.returned /\ l.ok
       THEN IF l.pre = HALF_OPEN THEN "probeOkInHalfOpen" ELSE "probeOk"
  ELSE IF l.kind = "probe" /\ l.returned /\ l.reports > 0
       THEN "probeFailed"
  ELSE "other"

Kind(b) == IF b.state = HALF_OPEN THEN "probe" ELSE "closed"

(* ------------------------------ actions -------------------------------- *)

Init ==
  /\ failureThreshold \in 1..MaxThreshold
  /\ halfOpenAfterMs \in 1..MaxCooldown
  /\ state = InitialBreaker.state
  /\ failureCount = InitialBreaker.failureCount
  /\ lastFailureTime = InitialBreaker.lastFailureTime
  /\ halfOpenProbeInProgress = InitialBreaker.halfOpenProbeInProgress
  /\ now = 0
  /\ requests = EmptyBag
  /\ admittedCount = 0
  /\ fetchCalls = 0
  /\ hist = InitialHist
  /\ last = NoLast
  /\ NoHttpClient /\ NoJsonClient /\ NoLaterClient

\* A caller invokes get() or post(): request() runs up to its first await.
\* builds: neither `new URL(endpoint, baseUrl)' nor, for post(), the
\* JSON.stringify of the body throws.
Request(builds) ==
  /\ admittedCount < MaxRequests
  /\ LET b0 == Breaker
         c  == checkCircuitState(b0, now)
         r  == requestEnter(b0, now, builds)
         h1 == Moved(hist, b0, c.b, now)
         h2 == IF r.reports > 0 THEN Failed(h1, c.b, r.b, now, Kind(c.b)) ELSE h1
     IN  /\ SetBreaker(r.b)
         /\ requests' = IF r.returned THEN requests
                        ELSE requests (+)
                             SetToBag({[kind |-> Kind(c.b), pc |-> "fetch", status |-> 0]})
         /\ admittedCount' = IF c.ok THEN admittedCount + 1 ELSE admittedCount
         /\ fetchCalls' = IF r.fetched THEN fetchCalls + 1 ELSE fetchCalls
         /\ hist' = [h2 EXCEPT !.reported = hist.reported + r.reports]
         /\ last' = [NoLast EXCEPT
                       !.op = "request", !.pre = b0.state, !.cooled = Cooled,
                       !.probeCooldown = InProbeCooldown,
                       !.admitted = IF c.ok THEN Kind(c.b) ELSE "no",
                       !.kind = IF c.ok THEN Kind(c.b) ELSE "none",
                       !.returned = r.returned,
                       !.ok = r.returned /\ r.result.ok,
                       !.error = r.result.error, !.fetched = r.fetched,
                       !.reports = r.reports, !.post = r.b.state,
                       !.prev = Class(last)]
  /\ UNCHANGED <<configVars, now, rest1>>

\* Request q, suspended at an await, returns with step r.
Settled(q, r) ==
  LET b0 == Breaker
      h1 == IF r.result.ok THEN Succeeded(hist, b0, r.b, now)
            ELSE Failed(hist, b0, r.b, now, q.kind)
  IN  /\ SetBreaker(r.b)
      /\ requests' = requests (-) SetToBag({q})
      /\ hist' = [h1 EXCEPT !.reported = hist.reported + r.reports]
      /\ last' = [NoLast EXCEPT
                    !.op = "settle", !.pre = b0.state, !.cooled = Cooled,
                    !.probeCooldown = InProbeCooldown,
                    !.kind = q.kind, !.returned = TRUE, !.ok = r.result.ok,
                    !.error = r.result.error, !.fetched = r.fetched,
                    !.reports = r.reports, !.post = r.b.state,
                    !.prev = Class(last)]

\* The fetch of a suspended request settles with outcome o; request() either
\* returns a failure or goes on to await response.json().
FetchSettles(q, o) ==
  /\ BagIn(q, requests) /\ q.pc = "fetch"
  /\ LET r == requestAfterFetch(Breaker, now, o)
     IN  IF r.returned
         THEN Settled(q, r)
         ELSE /\ requests' = (requests (-) SetToBag({q})) (+)
                             SetToBag({[q EXCEPT !.pc = "json", !.status = o.status]})
              /\ UNCHANGED <<breakerVars, hist, last>>
  /\ UNCHANGED <<configVars, now, admittedCount, fetchCalls, rest1>>

\* response.json() of a suspended request settles (and the schema, when one
\* was passed, accepts or rejects the data); request() returns.
JsonSettles(q, o) ==
  /\ BagIn(q, requests) /\ q.pc = "json"
  /\ Settled(q, requestAfterJson(Breaker, now, q.status, o))
  /\ UNCHANGED <<configVars, now, admittedCount, fetchCalls, rest1>>

\* A caller invokes reset().
Reset ==
  /\ LET b0 == Breaker
         b1 == reset(b0)
     IN  /\ SetBreaker(b1)
         /\ hist' = WasReset(hist, b0, b1, now)
         /\ last' = [NoLast EXCEPT !.op = "reset", !.pre = b0.state,
                                   !.cooled = Cooled,
                                   !.probeCooldown = InProbeCooldown,
                                   !.returned = TRUE, !.post = b1.state,
                                   !.prev = Class(last)]
  /\ UNCHANGED <<configVars, now, requests, admittedCount, fetchCalls,
                 rest1>>

\* A caller invokes getState().
GetState ==
  /\ last' = [NoLast EXCEPT !.op = "getState", !.pre = state, !.cooled = Cooled,
                            !.probeCooldown = InProbeCooldown,
                            !.returned = TRUE, !.post = state,
                            !.ret = getState(Breaker), !.prev = Class(last)]
  /\ UNCHANGED <<configVars, breakerVars, now, requests, admittedCount,
                 fetchCalls, hist, rest1>>

\* Time passes.
Tick ==
  /\ now < MaxTime
  /\ now' = now + 1
  /\ UNCHANGED <<configVars, breakerVars, requests, admittedCount, fetchCalls,
                 hist, last, rest1>>

\* Everything but reset(): the callers of get()/post() and getState(), the
\* transport, the clock.
Traffic ==
  \/ \E builds \in BOOLEAN : Request(builds)
  \/ \E q \in BagToSet(requests), o \in FetchOutcomes : FetchSettles(q, o)
  \/ \E q \in BagToSet(requests), o \in JsonOutcomes : JsonSettles(q, o)
  \/ GetState
  \/ Tick

Next ==
  \/ Traffic
  \/ Reset

Spec == Init /\ [][Next]_allVars

\* The client when no caller ever invokes reset().
SpecNoReset == Init /\ [][Traffic]_allVars

\* The timer armed by fetchWithTimeout() fires while the fetch is pending:
\* the fetch rejects with an AbortError.
TimerAborts ==
  \E q \in BagToSet(requests) :
    FetchSettles(q, Throw("AbortError", "This operation was aborted"))

\* The client when armed timers eventually fire; the upstream is free never
\* to answer and never to finish a body.
SpecTimers == Init /\ [][Traffic]_allVars /\ WF_allVars(TimerAborts)

TypeOK ==
  /\ state \in CircuitState
  /\ failureCount \in Nat
  /\ lastFailureTime \in {NULL} \cup (0..MaxTime)
  /\ halfOpenProbeInProgress \in BOOLEAN
  /\ now \in 0..MaxTime
  /\ admittedCount \in 0..MaxRequests
  /\ fetchCalls \in 0..MaxRequests

(* ------------------------------- claims -------------------------------- *)

IsRequest  == last.op = "request"
IsReport   == last.op \in {"request", "settle"} /\ last.reports > 0
ProbeOk    == {"probeOk", "probeOkInHalfOpen"}
ProbesInFlight ==
  LET S == {q \in BagToSet(requests) : q.kind = "probe"}
  IN  BagCardinality([q \in S |-> CopiesIn(q, requests)])

\* C1: in a run of consecutive failures that starts with the breaker CLOSED
\* and failureCount 0, the breaker is CLOSED after each of the first n-1
\* failures (n = failureThreshold), the n-th failure takes it to OPEN, and
\* that is the only CLOSED -> OPEN transition of the run.
C1_OpensExactlyAtThreshold ==
  hist.run >= 0 =>
    /\ hist.run < failureThreshold => state = CLOSED /\ hist.opens = 0
    /\ hist.run >= failureThreshold =>
         hist.opens = 1 /\ hist.openedAtRun = failureThreshold
    /\ (IsReport /\ hist.run = failureThreshold) => last.post = OPEN

C1_Witness ==
  /\ failureThreshold = 2 /\ hist.run = 3 /\ hist.opens = 1
  /\ IsReport /\ state = OPEN

\* C2: a get()/post() made while the breaker is OPEN and less than
\* halfOpenAfterMs after it entered OPEN returns the error
\* 'CircuitOpenFailFast', calls no handler and does not call fetch.
C2_FailFastWhileOpen ==
  (IsRequest /\ last.pre = OPEN /\ ~last.cooled) =>
    /\ last.returned /\ ~last.ok
    /\ last.error = "CircuitOpenFailFast"
    /\ ~last.fetched /\ last.reports = 0 /\ last.admitted = "no"

C2_Witness ==
  /\ IsRequest /\ last.pre = OPEN /\ ~last.cooled
  /\ last.error = "CircuitOpenFailFast"
  /\ halfOpenAfterMs = 2 /\ now = hist.openedAt + 1
  /\ BagCardinality(requests) > 0

\* C3: a get()/post() made while the breaker is OPEN and at least
\* halfOpenAfterMs after it entered OPEN is admitted as the probe: the state
\* becomes HALF_OPEN and fetch is called, whatever requests admitted earlier
\* have reported in the meantime.
C3_ProbeAdmittedAfterCooldown ==
  (IsRequest /\ last.pre = OPEN /\ last.cooled) =>
    /\ last.admitted = "probe"
    /\ ~last.returned => (last.fetched /\ last.post = HALF_OPEN)

\* C4: a get()/post() made while the breaker is HALF_OPEN with its probe in
\* flight is rejected with 'HalfOpenProbeRejected' without calling fetch, and
\* never are two requests admitted as probes in flight together.
C4_SingleProbe ==
  /\ (IsRequest /\ last.pre = HALF_OPEN) =>
       (last.error = "HalfOpenProbeRejected" /\ ~last.fetched)
  /\ ProbesInFlight <= 1

\* C5: when the request admitted as the probe succeeds, the breaker is CLOSED
\* with failureCount 0 and the probe latch released, and the request that
\* follows is admitted normally.
C5_ProbeSuccessCloses ==
  /\ (last.op = "settle" /\ last.kind = "probe" /\ last.ok) =>
       (state = CLOSED /\ failureCount = 0 /\ ~halfOpenProbeInProgress)
  /\ (IsRequest /\ last.prev \in ProbeOk) => last.admitted = "closed"

\* C6: when the request admitted as the probe fails, the breaker is OPEN, and
\* every request made less than halfOpenAfterMs after that failure is
\* rejected with 'CircuitOpenFailFast' without calling fetch.
C6_ProbeFailureReopens ==
  /\ (IsReport /\ last.kind = "probe" /\ ~last.ok) => state = OPEN
  /\ (IsRequest /\ last.probeCooldown) =>
       (last.error = "CircuitOpenFailFast" /\ ~last.fetched)

\* C7: getState() called while the breaker has been OPEN for at least
\* halfOpenAfterMs returns HALF_OPEN.
C7_GetStateAfterCooldown ==
  (last.op = "getState" /\ last.pre = OPEN /\ last.cooled) => last.ret = HALF_OPEN

C9_OneReportPerAdmitted ==
  /\ hist.reported + BagCardinality(requests) = admittedCount
  /\ (last.op \in {"request", "settle"} /\ last.kind # "none") =>
       last.reports = (IF last.returned THEN 1 ELSE 0)
  /\ (IsRequest /\ last.admitted = "no") => last.reports = 0

C9_Witness ==
  /\ last.op = "settle" /\ last.reports = 1
  /\ last.error = "Schema validation failed: invalid"
  /\ hist.reported = 3 /\ BagCardinality(requests) = 1

\* C10: reset() leaves the breaker in its construction state, whatever state
\* it was in, and the request that follows is admitted.
C10_ResetRestoresInitial ==
  /\ last.op = "reset" => Breaker = InitialBreaker
  /\ (IsRequest /\ last.prev = "reset") =>
       (last.admitted = "closed" /\ last.pre = CLOSED)

C10_Witness ==
  /\ last.op = "reset" /\ last.pre = HALF_OPEN /\ ProbesInFlight = 1
  /\ state = CLOSED

\* C11: when the fetch of an admitted request is aborted, the call returns
\* ok:false with 'Request failed: Timeout' and counts as one failure; no other
\* way the fetch can fail returns that error.
C11_TimeoutDistinct ==
  \A q \in BagToSet(requests) : q.pc = "fetch" =>
    \A o \in FetchOutcomes : (o.kind = "throw" \/ ~o.ok) =>
      LET r == requestAfterFetch(Breaker, now, o)
      IN  IF o.kind = "throw" /\ o.name = "AbortError"
          THEN /\ r.returned /\ ~r.result.ok
               /\ r.result.error = "Request failed: Timeout"
               /\ r.reports = 1
               /\ r.b.failureCount = failureCount + 1
          ELSE r.result.error # "Request failed: Timeout"

\* C12: every get()/post() that returns, returns either ok:true or ok:false
\* with a non-empty error, in every breaker state and for every outcome of
\* the transport.
C12_AlwaysAResult ==
  (last.op \in {"request", "settle"} /\ last.returned) =>
    \/ last.ok /\ last.error = ""
    \/ ~last.ok /\ last.error # ""

C12_Witness ==
  /\ last.op = "settle" /\ last.returned /\ ~last.ok
  /\ last.error = "Request failed: fetch failed"
  /\ last.pre = HALF_OPEN

\* C25: while HALF_OPEN with a probe in flight, only the report of a probe
\* moves the state out of HALF_OPEN, and the outcome of a request admitted
\* while CLOSED that completes then changes neither the state nor the latch.
C25_OnlyTheProbeDecides ==
  /\ (IsReport /\ last.pre = HALF_OPEN /\ state # HALF_OPEN) => last.kind = "probe"
  /\ ( /\ last.op = "settle" /\ last.kind = "closed" /\ last.pre = HALF_OPEN
       /\ ProbesInFlight > 0 )
     => state = HALF_OPEN /\ halfOpenProbeInProgress

\* C26: a get()/post() that checkCircuitState() rejects leaves state,
\* failureCount, lastFailureTime and halfOpenProbeInProgress as they were.
C26_RejectionChangesNothing ==
  LET c == checkCircuitState(Breaker, now)
      r == requestEnter(Breaker, now, TRUE)
  IN  ~c.ok =>
        /\ c.b = Breaker
        /\ r.returned /\ ~r.result.ok /\ ~r.fetched
        /\ r.b = Breaker

C26_Witness ==
  /\ last.op = "request" /\ last.admitted = "no"
  /\ last.error = "HalfOpenProbeRejected"
  /\ state = HALF_OPEN /\ halfOpenProbeInProgress

\* C27: when armed timers eventually fire, the requests in flight all come to
\* report to the breaker, and a set probe latch is eventually released,
\* even when the upstream never finishes the headers or the body.
C27_TimeoutBoundsAttempt ==
  /\ (requests # EmptyBag) ~> (requests = EmptyBag)
  /\ halfOpenProbeInProgress ~> ~halfOpenProbeInProgress

\* C38: in every reachable state, state = CLOSED implies
\* failureCount < failureThreshold, whatever the interleaving of requests
\* and reset() calls.
C38_ClosedBelowThreshold ==
  state = CLOSED => failureCount < failureThreshold

\* A failure has been counted while CLOSED and the circuit stayed CLOSED, one
\* failure short of the threshold.
C38_Witness ==
  /\ IsReport /\ last.pre = CLOSED /\ state = CLOSED
  /\ failureCount >= 1 /\ failureCount = failureThreshold - 1

(***************************************************************************)
(* Part 2: ResilientHttpClient (unnamed/part_009).                         *)
(*                                                                         *)
(* getUserData() validates the userId and then runs the request inside     *)
(* CircuitBreaker.execute(): totalRequests is counted, canExecute() admits *)
(* or rejects, and the outcome of the awaited function is reported with    *)
(* onSuccess()/onFailure() when it settles.  The awaited function suspends *)
(* at the fetch (with a timer armed) and at response.text().               *)
(***************************************************************************)

\* No ResilientClient (part 1) has been constructed.
NoResilientClient ==
  /\ failureThreshold = NULL /\ halfOpenAfterMs = NULL /\ state = NULL
  /\ failureCount = NULL /\ lastFailureTime = NULL
  /\ halfOpenProbeInProgress = NULL /\ now = NULL /\ requests = NULL
  /\ admittedCount = NULL /\ fetchCalls = NULL /\ hist = NULL /\ last = NULL

(* ------------------------- CircuitBreaker ------------------------------ *)

defaultConfig ==
  [failureThreshold |-> 3, resetTimeout |-> 5000, requestTimeout |-> 10000]

\* { ...defaultConfig, ...config } for a Partial<CircuitBreakerConfig>.
MergeConfig(config) ==
  [k \in DOMAIN defaultConfig |->
     IF k \in DOMAIN config THEN config[k] ELSE defaultConfig[k]]

\* new CircuitBreaker(config)
CircuitBreaker(config) ==
  [state |-> CLOSED, failureCount |-> 0, lastFailureTime |-> NULL,
   metrics |-> [totalRequests |-> 0, successfulRequests |-> 0,
                failedRequests |-> 0, circuitOpenCount |-> 0],
   config |-> config]

\* new ResilientHttpClient(config): its circuitBreaker.
ResilientHttpClient(config) == CircuitBreaker(MergeConfig(config))

transitionTo(c, newState) ==
  [c EXCEPT !.state = newState,
            !.metrics.circuitOpenCount = IF newState = OPEN THEN @ + 1 ELSE @]

\* `this.lastFailureTime' used as a condition: null and 0 are falsy.
Truthy(n) == n # NULL /\ n # 0

\* canExecute() at time t: the breaker it leaves and the answer.
canExecute(c, t) ==
  IF c.state = CLOSED THEN [c |-> c, ok |-> TRUE]
  ELSE IF c.state = HALF_OPEN THEN [c |-> c, ok |-> TRUE]
  ELSE IF /\ c.state = OPEN /\ Truthy(c.lastFailureTime)
          /\ t - c.lastFailureTime >= c.config.resetTimeout
  THEN [c |-> transitionTo(c, HALF_OPEN), ok |-> TRUE]
  ELSE [c |-> c, ok |-> FALSE]

\* Mutant: keeps the failure count on a success.
onSuccess_KeepsCount(c) ==
  LET c1 == [c EXCEPT !.metrics.successfulRequests = @ + 1]
  IN  IF c1.state = HALF_OPEN THEN transitionTo(c1, CLOSED) ELSE c1

onSuccess(c) ==
  LET c1 == [c EXCEPT !.failureCount = 0, !.metrics.successfulRequests = @ + 1]
  IN  IF c1.state = HALF_OPEN THEN transitionTo(c1, CLOSED) ELSE c1

onFailure(c, t) ==
  LET c1 == [c EXCEPT !.failureCount = @ + 1, !.metrics.failedRequests = @ + 1,
                      !.lastFailureTime = t]
  IN  IF c1.state = HALF_OPEN THEN transitionTo(c1, OPEN)
      ELSE IF c1.failureCount >= c1.config.failureThreshold
      THEN transitionTo(c1, OPEN)
      ELSE c1

\* CircuitBreaker.getState()
circuitState(c) == c.state

\* CircuitBreaker.reset(), called by resetCircuit(): the metrics are kept.
resetCircuit(c) ==
  [c EXCEPT !.state = CLOSED, !.failureCount = 0, !.lastFailureTime = NULL]

(* ----------------------- ResilientHttpClient --------------------------- *)

\* A string is a sequence of runs: Run(ch, n) is the character ch n times.
Run(ch, n) == [ch |-> ch, n |-> n]

Whitespace == {" "}
\* Characters of the class [a-zA-Z0-9_-]
IdChars == {"a", "Z", "9", "_", "-"}

RECURSIVE Length(_)
Length(str) == IF str = <<>> THEN 0 ELSE Head(str).n + Length(Tail(str))

RECURSIVE TrimStart(_)
TrimStart(str) ==
  IF str # <<>> /\ Head(str).ch \in Whitespace THEN TrimStart(Tail(str)) ELSE str

RECURSIVE TrimEnd(_)
TrimEnd(str) ==
  IF str # <<>> /\ str[Len(str)].ch \in Whitespace
  THEN TrimEnd(SubSeq(str, 1, Len(str) - 1))
  ELSE str

\* String.prototype.trim()
trim(str) == TrimEnd(TrimStart(str))

\* /^[a-zA-Z0-9_-]+$/.test(str)
MatchesIdPattern(str) ==
  /\ Length(str) >= 1
  /\ \A i \in 1..Len(str) : str[i].ch \in IdChars

\* new Error(...): the fixed text of the message and the number it embeds.
Error(message, n) == [message |-> message, n |-> n]
NoError == Error("", 0)

\* validateUserId(): what it returns, or the error it throws.
validateUserId(userId) ==
  LET sanitized == trim(userId)
  IN  IF ~MatchesIdPattern(sanitized)
      THEN [ok |-> FALSE, error |-> Error("Invalid userId format", 0)]
      ELSE IF Length(sanitized) = 0 \/ Length(sanitized) > 100
      THEN [ok |-> FALSE, error |-> Error("Invalid userId length", 0)]
      ELSE [ok |-> TRUE, error |-> NoError]

\* CircuitBreakerResult
Success(st)        == [success |-> TRUE, error |-> NoError, circuitState |-> st]
Failure(error, st) == [success |-> FALSE, error |-> error, circuitState |-> st]

\* One synchronous stretch of getUserData(): the breaker it leaves, whether
\* the call returned (and what), whether fetch was called.
HttpStep(c, returned, result, fetched) ==
  [c |-> c, returned |-> returned, result |-> result, fetched |-> fetched]

\* The deadline getUserData() passes to fetchWithTimeout().
fetchTimeout(c) == 10000

\* execute() that counts a request only once canExecute() admitted it.
executeEnter_CountsAdmitted(c, t) ==
  LET ce == canExecute(c, t)
  IN  IF ~ce.ok
      THEN HttpStep(ce.c, TRUE,
                    Failure(Error("Circuit Breaker is OPEN", ce.c.config.resetTimeout),
                            circuitState(ce.c)),
                    FALSE)
      ELSE HttpStep([ce.c EXCEPT !.metrics.totalRequests = @ + 1], FALSE,
                    Success(circuitState(ce.c)), TRUE)

\* execute() up to `await fn()': fn runs up to its await of fetch.
executeEnter(c, t) ==
  LET c1 == [c EXCEPT !.metrics.totalRequests = @ + 1]
      ce == canExecute(c1, t)
  IN  IF ~ce.ok
      THEN HttpStep(ce.c, TRUE,
                    Failure(Error("Circuit Breaker is OPEN", ce.c.config.resetTimeout),
                            circuitState(ce.c)),
                    FALSE)
      ELSE HttpStep(ce.c, FALSE, Success(circuitState(ce.c)), TRUE)

\* Mutant: goes to the breaker before it validates the userId.
getUserDataEnter_BreakerFirst(c, t, userId) ==
  LET v == validateUserId(userId)
      e == executeEnter(c, t)
  IN  IF v.ok THEN e
      ELSE HttpStep(e.c, TRUE, Failure(v.error, circuitState(e.c)), FALSE)

\* getUserData(userId) up to its first await.
getUserDataEnter(c, t, userId) ==
  LET v == validateUserId(userId)
  IN  IF ~v.ok
      THEN HttpStep(c, TRUE, Failure(v.error, circuitState(c)), FALSE)
      ELSE executeEnter(c, t)

\* What the function passed to execute() has come to: still pending at the
\* next await, resolved, or rejected with an error.
Pending       == [settled |-> FALSE, ok |-> FALSE, error |-> NoError]
Resolved      == [settled |-> TRUE, ok |-> TRUE, error |-> NoError]
Rejected(err) == [settled |-> TRUE, ok |-> FALSE, error |-> err]

\* What fetch can do before the timer fires.
HttpFetchOutcomes ==
  { Resp(TRUE, 200), Resp(FALSE, 500), Throw("TypeError", "fetch failed") }

\* What response.text() and the checks after it can come to.
TextOutcomes == {"user", "invalidJson", "missingFields", "readError"}

\* fn after fetchWithTimeout() settled with o.
fnAfterFetch(o) ==
  IF o.kind = "throw" THEN Rejected(Error(o.message, 0))
  ELSE IF ~o.ok THEN Rejected(Error("HTTP Error", o.status))
  ELSE Pending

\* fetchWithTimeout(): the timer aborts the fetch, which rejects with an
\* AbortError.
fnAfterAbort(timeout) == Rejected(Error("Request timeout after", timeout))

\* fn after response.text() settled: JSON.parse and the field check.
fnAfterText(o) ==
  IF o = "readError" THEN Rejected(Error("terminated", 0))
  ELSE IF o = "invalidJson" THEN Rejected(Error("Invalid JSON response", 200))
  ELSE IF o = "missingFields" THEN Rejected(Error("Invalid user data structure", 0))
  ELSE Resolved

\* execute() after `await fn()' settled with f (f.settled) at time t.
executeSettle(c, t, f) ==
  IF f.ok
  THEN LET c1 == onSuccess(c) IN HttpStep(c1, TRUE, Success(circuitState(c1)), FALSE)
  ELSE LET c1 == onFailure(c, t)
       IN  HttpStep(c1, TRUE, Failure(f.error, circuitState(c1)), FALSE)

(* ------------------------- part 2: history ----------------------------- *)

\* Constructor arguments: failureThreshold and a resetTimeout of 1 ms are
\* given, and requestTimeout is left to the default or given (2000 ms).
Configs ==
  { [failureThreshold |-> n, resetTimeout |-> 1] : n \in 1..HttpMaxThreshold }
  \cup
  { [failureThreshold |-> 1, resetTimeout |-> 1, requestTimeout |-> 2000] }

\* The userIds the callers pass: '', '  ', 'aaa', '_-9', ' a..a ' (100 a's),
\* 'a..a' (101 a's), '../admin', 'a a'.
UserIds ==
  { <<>>,
    <<Run(" ", 2)>>,
    <<Run("a", 3)>>,
    <<Run("_", 1), Run("-", 1), Run("9", 1)>>,
    <<Run(" ", 1), Run("a", 100), Run(" ", 1)>>,
    <<Run("a", 101)>>,
    <<Run(".", 2), Run("/", 1), Run("a", 5)>>,
    <<Run("a", 1), Run(" ", 1), Run("a", 1)>> }

\* Why a userId is not acceptable, judged on the trimmed string.
Category(userId) ==
  LET str == trim(userId)
  IN  IF Length(str) = 0 THEN "empty"
      ELSE IF \E i \in 1..Len(str) : str[i].ch \notin IdChars THEN "chars"
      ELSE IF Length(str) > 100 THEN "long"
      ELSE "fine"

\* History: the constructor argument, the failures reported since the last
\* success or reset, the number of times the state changed to OPEN, and the
\* number of calls the breaker refused without running the function.
InitialHttpHist(config) ==
  [given |-> config, streak |-> 0, opens |-> 0, failFast |-> 0]

\* The history after the breaker went from c0 to c1 by a report (ok or not).
Reported(h, c0, c1, ok) ==
  [h EXCEPT !.streak = IF ok THEN 0 ELSE @ + 1,
            !.opens = IF c0.state # OPEN /\ c1.state = OPEN THEN @ + 1 ELSE @]

\* Number of suspended calls that were admitted in HALF_OPEN.
TrialsInFlight ==
  LET S == {q \in BagToSet(calls) : q.trial}
  IN  BagCardinality([q \in S |-> CopiesIn(q, calls)])

\* What the most recent operation was: "none", a getUserData() that was
\* "invalid" (refused by the validation), "rejected" (by the breaker) or
\* "admitted", a call that returned "success" or "failure", or a "reset".
EnterClass(userId, r) ==
  IF Category(userId) # "fine" THEN "invalid"
  ELSE IF r.returned THEN "rejected"
  ELSE "admitted"

(* ------------------------- part 2: actions ----------------------------- *)

HttpInit ==
  /\ \E config \in Configs :
       /\ cb = ResilientHttpClient(config)
       /\ httpHist = InitialHttpHist(config)
  /\ httpNow = 1
  /\ calls = EmptyBag
  /\ httpLast = "none"
  /\ NoResilientClient /\ NoJsonClient /\ NoLaterClient

\* A caller invokes getUserData(userId): it runs up to its first await.
GetUserData(userId) ==
  /\ cb.metrics.totalRequests < HttpMaxCalls
  /\ BagCardinality(calls) < HttpMaxInFlight
  /\ LET r == getUserDataEnter(cb, httpNow, userId)
     IN  /\ cb' = r.c
         /\ calls' = IF r.returned THEN calls
                     ELSE calls (+)
                          SetToBag({[pc |-> "fetch", start |-> httpNow,
                                     timeout |-> fetchTimeout(r.c),
                                     trial |-> r.c.state = HALF_OPEN]})
         /\ httpLast' = EnterClass(userId, r)
         /\ httpHist' = [httpHist EXCEPT
                           !.failFast = IF EnterClass(userId, r) = "rejected"
                                        THEN @ + 1 ELSE @]
  /\ UNCHANGED <<httpNow, rest2>>

\* The function passed to execute() settles for call q with f: execute()
\* reports it to the breaker and getUserData() returns.
CallSettles(q, f) ==
  LET r == executeSettle(cb, httpNow, f)
  IN  /\ cb' = r.c
      /\ calls' = calls (-) SetToBag({q})
      /\ httpHist' = Reported(httpHist, cb, r.c, f.ok)
      /\ httpLast' = IF r.result.success THEN "success" ELSE "failure"

\* The fetch of a suspended call settles with o before its timer fires: the
\* function rejects, or clears the timer and goes on to await response.text().
FetchResolves(q, o) ==
  /\ BagIn(q, calls) /\ q.pc = "fetch"
  /\ LET f == fnAfterFetch(o)
     IN  IF f.settled
         THEN CallSettles(q, f)
         ELSE /\ calls' = (calls (-) SetToBag({q})) (+)
                          SetToBag({[q EXCEPT !.pc = "text", !.start = NULL,
                                               !.timeout = NULL]})
              /\ UNCHANGED <<cb, httpHist, httpLast>>
  /\ UNCHANGED <<httpNow, rest2>>

\* The timer of fetchWithTimeout() fires while the fetch is pending.
TimerFires(q) ==
  /\ BagIn(q, calls) /\ q.pc = "fetch"
  /\ httpNow - q.start >= q.timeout
  /\ CallSettles(q, fnAfterAbort(q.timeout))
  /\ UNCHANGED <<httpNow, rest2>>

\* response.text() of a suspended call settles; the function settles.
TextResolves(q, o) ==
  /\ BagIn(q, calls) /\ q.pc = "text"
  /\ CallSettles(q, fnAfterText(o))
  /\ UNCHANGED <<httpNow, rest2>>

\* A caller invokes resetCircuit().
ResetCircuit ==
  /\ cb' = resetCircuit(cb)
  /\ httpHist' = [httpHist EXCEPT !.streak = 0]
  /\ httpLast' = "reset"
  /\ UNCHANGED <<httpNow, calls, rest2>>

\* The instants of a behaviour: up to HttpMaxElapsed single milliseconds
\* after the construction at 1, and at most one wait as long as the deadline
\* of a request.
HttpInstants ==
  { 1 + e + k * fetchTimeout(cb) : e \in 0..HttpMaxElapsed, k \in 0..1 }

\* Time passes: one millisecond, or as long as the deadline of a request.
Advance(d) ==
  /\ httpNow + d \in HttpInstants
  /\ httpNow' = httpNow + d
  /\ UNCHANGED <<cb, calls, httpHist, httpLast, rest2>>

HttpNext ==
  \/ \E userId \in UserIds : GetUserData(userId)
  \/ \E q \in BagToSet(calls), o \in HttpFetchOutcomes : FetchResolves(q, o)
  \/ \E q \in BagToSet(calls) : TimerFires(q)
  \/ \E q \in BagToSet(calls), o \in TextOutcomes : TextResolves(q, o)
  \/ ResetCircuit
  \/ \E d \in {1, fetchTimeout(cb)} : Advance(d)

HttpSpec == HttpInit /\ [][HttpNext]_allVars

HttpTypeOK ==
  /\ cb.state \in CircuitState
  /\ cb.failureCount \in Nat
  /\ cb.metrics.totalRequests \in 0..HttpMaxCalls
  /\ cb.metrics.successfulRequests + cb.metrics.failedRequests
       <= cb.metrics.totalRequests
  /\ httpNow \in Nat

(* --------------------------- part 2: claims ---------------------------- *)

\* C13: in every state of the breaker, getUserData with a userId that (once
\* trimmed) is empty, longer than 100 characters or holds a character outside
\* [a-zA-Z0-9_-] returns success:false, calls no fetch and leaves the state,
\* failureCount, lastFailureTime and every metric as they were.
C13_InvalidIdLeavesBreakerAlone ==
  \A userId \in UserIds : Category(userId) # "fine" =>
    LET r == getUserDataEnter(cb, httpNow, userId)
    IN  /\ r.returned /\ ~r.result.success /\ ~r.fetched
        /\ r.result.circuitState = cb.state
        /\ r.c = cb

C13_Witness ==
  /\ httpLast = "invalid"
  /\ cb.state = OPEN
  /\ BagCardinality(calls) > 0

\* C14: a success while CLOSED leaves failureCount 0 (and so does one more
\* success); while CLOSED failureCount is the number of failures since the
\* last success and is below failureThreshold, so that a failure opens the
\* breaker exactly when it is the failureThreshold-th in a row.
C14_SuccessResetsFailureCount ==
  /\ (httpLast = "success" /\ cb.state = CLOSED) => cb.failureCount = 0
  /\ cb.state = CLOSED =>
       /\ onSuccess(cb).failureCount = 0
       /\ onSuccess(onSuccess(cb)).failureCount = 0
       /\ cb.failureCount = httpHist.streak
       /\ cb.failureCount < cb.config.failureThreshold
       /\ (onFailure(cb, httpNow).state = OPEN)
            <=> (httpHist.streak + 1 = cb.config.failureThreshold)

\* threshold 3: fail, fail, success, fail, fail has left the breaker CLOSED
C14_Witness ==
  /\ cb.config.failureThreshold = 3
  /\ httpLast = "failure"
  /\ cb.state = CLOSED /\ cb.failureCount = 2
  /\ cb.metrics.failedRequests = 4 /\ cb.metrics.successfulRequests = 1
  /\ cb.metrics.circuitOpenCount = 0

\* C15: metrics.circuitOpenCount is the number of times the state changed from
\* CLOSED or HALF_OPEN to OPEN, also when requests admitted while CLOSED fail
\* after the breaker is OPEN; after failureThreshold failures in a row on a
\* fresh client failedRequests = failureThreshold and circuitOpenCount = 1.
C15_OpenCountCountsOpenings ==
  /\ cb.metrics.circuitOpenCount = httpHist.opens
  /\ ( /\ cb.metrics.successfulRequests = 0
       /\ httpHist.streak = cb.config.failureThreshold
       /\ cb.metrics.failedRequests = cb.config.failureThreshold )
     => cb.metrics.circuitOpenCount = 1

\* C16: at most one call admitted in HALF_OPEN is in flight, and while one is,
\* every other getUserData call returns at once without calling fetch.
C16_SingleTrial ==
  /\ TrialsInFlight <= 1
  /\ TrialsInFlight > 0 =>
       \A userId \in UserIds :
         LET r == getUserDataEnter(cb, httpNow, userId)
         IN  r.returned /\ ~r.result.success /\ ~r.fetched

\* C17: the timer of every pending fetch is armed with the configured
\* requestTimeout, which is the constructor's value when one was given and
\* the default 10000 only when none was.
C17_ConfiguredDeadline ==
  /\ cb.config.requestTimeout =
       IF "requestTimeout" \in DOMAIN httpHist.given
       THEN httpHist.given.requestTimeout
       ELSE defaultConfig.requestTimeout
  /\ \A q \in BagToSet(calls) :
       q.pc = "fetch" => q.timeout = cb.config.requestTimeout

\* C34: whenever no request is in flight, metrics.totalRequests is the sum
\* of successfulRequests, failedRequests and the calls the breaker refused
\* fail-fast; a call refused by validateUserId changes no counter.
C34_TotalIsSumOfOutcomes ==
  /\ calls = EmptyBag =>
       cb.metrics.totalRequests =
         cb.metrics.successfulRequests + cb.metrics.failedRequests
           + httpHist.failFast
  /\ \A userId \in UserIds : Category(userId) # "fine" =>
       getUserDataEnter(cb, httpNow, userId).c.metrics = cb.metrics

\* With nothing in flight the breaker has counted a success, a failure and
\* a call refused fail-fast.
C34_Witness ==
  /\ calls = EmptyBag /\ httpHist.failFast >= 1
  /\ cb.metrics.successfulRequests >= 1 /\ cb.metrics.failedRequests >= 1
  /\ cb.metrics.totalRequests =
       cb.metrics.successfulRequests + cb.metrics.failedRequests
         + httpHist.failFast

(***************************************************************************)
(* Part 3: ResilientClient.getJson (Architecture.md).                      *)
(*                                                                         *)
(* request() asks the breaker with beforeRequest(), awaits fetch and then  *)
(* the reads of the body, and reports onSuccess()/onFailure() itself.  The *)
(* breaker goes from OPEN to HALF_OPEN by a timer.  The timers and the     *)
(* external signal can fire at any moment, so no clock is modelled.        *)
(***************************************************************************)

(* ------------------------- CircuitBreaker ------------------------------ *)

\* new CircuitBreaker(failureTriggers, openDurationMs); openTimer is TRUE
\* while the field holds a timer handle, timers is the number of timers
\* that setTimeout() scheduled and that neither fired nor were cleared.
NewCircuit(failureTriggers, openDurationMs) ==
  [state |-> CLOSED, consecutiveFailures |-> 0, openTimer |-> FALSE,
   timers |-> 0, halfOpenTrialInProgress |-> FALSE,
   failureTriggers |-> failureTriggers, openDurationMs |-> openDurationMs]

\* beforeRequest(): the breaker it leaves, and whether it returned (ok) or
\* threw CircuitOpenError(retryAfterMs).
beforeRequest(c) ==
  IF c.state = OPEN
  THEN [c |-> c, ok |-> FALSE, retryAfterMs |-> c.openDurationMs]
  ELSE IF c.state = HALF_OPEN
  THEN IF c.halfOpenTrialInProgress
       THEN [c |-> c, ok |-> FALSE, retryAfterMs |-> 0]
       ELSE [c |-> [c EXCEPT !.halfOpenTrialInProgress = TRUE],
             ok |-> TRUE, retryAfterMs |-> 0]
  ELSE [c |-> c, ok |-> TRUE, retryAfterMs |-> 0]

\* CircuitBreaker.reset() (private): clearTimeout(openTimer) when the field
\* holds a handle.
circuitReset(c) ==
  [c EXCEPT !.state = CLOSED, !.consecutiveFailures = 0,
            !.halfOpenTrialInProgress = FALSE, !.openTimer = FALSE,
            !.timers = IF c.openTimer THEN @ - 1 ELSE @]

\* moveToOpen() that schedules a timer without clearing the one the field
\* holds.
moveToOpen_KeepsOldTimer(c) ==
  [c EXCEPT !.state = OPEN, !.consecutiveFailures = 0,
            !.halfOpenTrialInProgress = FALSE, !.openTimer = TRUE,
            !.timers = @ + 1]

\* moveToOpen(): a scheduled timer is cleared and a new one is scheduled.
moveToOpen(c) ==
  [c EXCEPT !.state = OPEN, !.consecutiveFailures = 0,
            !.halfOpenTrialInProgress = FALSE, !.openTimer = TRUE,
            !.timers = (IF c.openTimer THEN @ - 1 ELSE @) + 1]

\* The callback of a timer scheduled by moveToOpen().
openTimerCallback(c) ==
  [c EXCEPT !.openTimer = FALSE, !.state = HALF_OPEN, !.timers = @ - 1]

\* CircuitBreaker.onSuccess()
circuitOnSuccess(c) ==
  LET c1 == IF c.state = HALF_OPEN THEN circuitReset(c)
            ELSE [c EXCEPT !.consecutiveFailures = 0]
  IN  [c1 EXCEPT !.halfOpenTrialInProgress = FALSE]

\* onFailure() that opens one failure after the trigger.
circuitOnFailure_OneLater(c) ==
  LET c1 == [c EXCEPT !.consecutiveFailures = @ + 1]
  IN  IF c1.consecutiveFailures - 1 \in c1.failureTriggers THEN moveToOpen(c1)
      ELSE IF c1.state = HALF_OPEN THEN moveToOpen(c1)
      ELSE c1

\* CircuitBreaker.onFailure()
circuitOnFailure(c) ==
  LET c1 == [c EXCEPT !.consecutiveFailures = @ + 1]
  IN  IF c1.consecutiveFailures \in c1.failureTriggers THEN moveToOpen(c1)
      ELSE IF c1.state = HALF_OPEN THEN moveToOpen(c1)
      ELSE c1

(* --------------------- ResilientClient.request ------------------------- *)

\* What fetch can settle with.
JsonFetchOutcomes ==
  { Resp(TRUE, 200), Resp(FALSE, 500),
    Throw("AbortError", "This operation was aborted"),
    Throw("TypeError", "fetch failed") }

\* The external AbortSignal passed to getJson().
Signals == {"none", "live", "aborted"}

\* A response body as the reader delivers it: whether response.body exists,
\* the byteLength of each chunk, whether the reads end with done or with a
\* rejection (the request was aborted, the connection broke), and whether
\* the whole text is JSON.
Body(reader, chunks, ends, json) ==
  [reader |-> reader, chunks |-> chunks, ends |-> ends, json |-> json]

Bodies ==
  { Body(FALSE, <<>>, "done", FALSE),
    Body(TRUE, <<1>>, "done", TRUE),
    Body(TRUE, <<1>>, "done", FALSE),
    Body(TRUE, <<1, 1>>, "done", TRUE),
    Body(TRUE, <<2, 1>>, "done", TRUE),
    Body(TRUE, <<2, 2>>, "done", TRUE),
    Body(TRUE, <<1>>, "error", FALSE) }

\* The loop of readResponseTextWithLimit() over the chunks still to come.
RECURSIVE ReadLoop(_, _, _, _)
ReadLoop(chunks, ends, received, maxBytes) ==
  IF chunks = <<>>
  THEN IF ends = "error" THEN [threw |-> TRUE, error |-> "AbortError"]
       ELSE [threw |-> FALSE, error |-> ""]
  ELSE IF received + Head(chunks) > maxBytes
  THEN [threw |-> TRUE, error |-> "ResponseTooLargeError"]
  ELSE ReadLoop(Tail(chunks), ends, received + Head(chunks), maxBytes)

\* readResponseTextWithLimit(response, maxBytes, controller)
readResponseTextWithLimit(body, maxBytes) ==
  IF ~body.reader THEN [threw |-> FALSE, error |-> ""]
  ELSE ReadLoop(body.chunks, body.ends, 0, maxBytes)

\* JSON.parse(text) returns: the text is not empty and is JSON.
Parses(body) == body.reader /\ body.chunks # <<>> /\ body.json

\* One synchronous stretch of request(): the breaker it leaves, whether the
\* call settled, the error it rejected with ("" when it resolved or is
\* pending), the number of onSuccess()/onFailure() calls it made, whether it
\* passed beforeRequest(), whether it called fetch.
JsonStep(c, returned, error, reports, admitted, fetched) ==
  [c |-> c, returned |-> returned, error |-> error, reports |-> reports,
   admitted |-> admitted, fetched |-> fetched]

\* request() up to the await of fetch.
getJsonEnter(c, signal) ==
  LET g == beforeRequest(c)
  IN  IF ~g.ok THEN JsonStep(g.c, TRUE, "CircuitOpenError", 0, FALSE, FALSE)
      ELSE IF signal = "aborted"
      THEN JsonStep(g.c, TRUE, "NetworkError", 0, TRUE, FALSE)
      ELSE JsonStep(g.c, FALSE, "", 0, TRUE, TRUE)

\* request() resumed when fetch settled with o.
getJsonAfterFetch(c, o) ==
  IF o.kind = "throw"
  THEN JsonStep(circuitOnFailure(c), TRUE, "NetworkError", 1, TRUE, FALSE)
  ELSE JsonStep(c, FALSE, "", 0, TRUE, FALSE)

\* request() resumed when the reads of the body have settled.
getJsonAfterBody(c, maxBytes, status, body) ==
  LET r == readResponseTextWithLimit(body, maxBytes)
  IN  IF r.threw THEN JsonStep(c, TRUE, r.error, 0, TRUE, FALSE)
      ELSE IF status < 200 \/ status >= 300
      THEN JsonStep(circuitOnFailure(c), TRUE, "HttpError", 1, TRUE, FALSE)
      ELSE IF ~Parses(body)
      THEN JsonStep(circuitOnFailure(c), TRUE, "JsonParseError", 1, TRUE, FALSE)
      ELSE JsonStep(circuitOnSuccess(c), TRUE, "", 1, TRUE, FALSE)

(* ------------------------- part 3: actions ----------------------------- *)

NoJsonLast ==
  [op |-> "none", admitted |-> FALSE, returned |-> FALSE, error |-> "",
   reports |-> 0, signal |-> "none", pre |-> CLOSED]

\* History: the failures reported in a row while the breaker was CLOSED,
\* after step r of a call taken in breaker state pre.
Streak(pre, r) ==
  IF r.reports = 0 THEN jsonHist.streak
  ELSE IF pre = CLOSED /\ r.error # "" THEN jsonHist.streak + 1
  ELSE 0

\* Number of suspended calls that were admitted in HALF_OPEN.
JsonTrialsInFlight ==
  LET S == {q \in BagToSet(jsonCalls) : q.trial}
  IN  BagCardinality([q \in S |-> CopiesIn(q, jsonCalls)])

JsonInit ==
  /\ \E n \in 1..ArchMaxTrigger : circuit = NewCircuit({n}, 5000)
  /\ maxResponseBytes \in 1..ArchMaxBytes
  /\ jsonCalls = EmptyBag
  /\ jsonHist = [admitted |-> 0, reported |-> 0, streak |-> 0]
  /\ jsonLast = NoJsonLast
  /\ NoResilientClient /\ NoHttpClient /\ NoLaterClient

\* A caller invokes getJson(path, signal): request() runs up to its first
\* await.
GetJson(signal) ==
  /\ jsonHist.admitted < ArchMaxRequests
  /\ LET r == getJsonEnter(circuit, signal)
     IN  /\ circuit' = r.c
         /\ jsonCalls' = IF r.returned THEN jsonCalls
                         ELSE jsonCalls (+)
                              SetToBag({[pc |-> "fetch", status |-> 0,
                                         trial |-> r.c.state = HALF_OPEN]})
         /\ jsonHist' = [jsonHist EXCEPT
                           !.admitted = IF r.admitted THEN @ + 1 ELSE @,
                           !.reported = @ + r.reports,
                           !.streak = Streak(circuit.state, r)]
         /\ jsonLast' = [op |-> "getJson", admitted |-> r.admitted,
                         returned |-> r.returned, error |-> r.error,
                         reports |-> r.reports, signal |-> signal,
                         pre |-> circuit.state]
  /\ UNCHANGED <<maxResponseBytes, rest3>>

\* Call q settles with step r: request() returns or throws.
JsonSettled(q, r) ==
  /\ circuit' = r.c
  /\ jsonCalls' = jsonCalls (-) SetToBag({q})
  /\ jsonHist' = [jsonHist EXCEPT !.reported = @ + r.reports,
                                  !.streak = Streak(circuit.state, r)]
  /\ jsonLast' = [op |-> "settle", admitted |-> TRUE, returned |-> TRUE,
                  error |-> r.error, reports |-> r.reports, signal |-> "none",
                  pre |-> circuit.state]

\* The fetch of a suspended call settles with o (an AbortError when the
\* request timer or the external signal aborted it).
JsonFetchSettles(q, o) ==
  /\ BagIn(q, jsonCalls) /\ q.pc = "fetch"
  /\ LET r == getJsonAfterFetch(circuit, o)
     IN  IF r.returned
         THEN JsonSettled(q, r)
         ELSE /\ jsonCalls' = (jsonCalls (-) SetToBag({q})) (+)
                              SetToBag({[q EXCEPT !.pc = "body",
                                                  !.status = o.status]})
              /\ UNCHANGED <<circuit, jsonHist, jsonLast>>
  /\ UNCHANGED <<maxResponseBytes, rest3>>

\* The reads of the body of a suspended call have settled.
BodySettles(q, body) ==
  /\ BagIn(q, jsonCalls) /\ q.pc = "body"
  /\ JsonSettled(q, getJsonAfterBody(circuit, maxResponseBytes, q.status, body))
  /\ UNCHANGED <<maxResponseBytes, rest3>>

\* The timer scheduled by moveToOpen() fires.
OpenTimerFires ==
  /\ circuit.timers > 0
  /\ circuit' = openTimerCallback(circuit)
  /\ jsonLast' = [NoJsonLast EXCEPT !.op = "timer"]
  /\ UNCHANGED <<maxResponseBytes, jsonCalls, jsonHist, rest3>>

JsonNext ==
  \/ \E signal \in Signals : GetJson(signal)
  \/ \E q \in BagToSet(jsonCalls), o \in JsonFetchOutcomes : JsonFetchSettles(q, o)
  \/ \E q \in BagToSet(jsonCalls), body \in Bodies : BodySettles(q, body)
  \/ OpenTimerFires

JsonSpec == JsonInit /\ [][JsonNext]_allVars

JsonTypeOK ==
  /\ circuit.state \in CircuitState
  /\ circuit.consecutiveFailures \in Nat
  /\ circuit.openTimer \in BOOLEAN
  /\ circuit.timers \in Nat
  /\ circuit.halfOpenTrialInProgress \in BOOLEAN
  /\ maxResponseBytes \in 1..ArchMaxBytes
  /\ jsonHist.admitted \in 0..ArchMaxRequests
  /\ jsonHist.reported \in 0..jsonHist.admitted

(* --------------------------- part 3: claims ---------------------------- *)

\* received after the last chunk: the sum of the byteLengths.
RECURSIVE TotalBytes(_)
TotalBytes(chunks) ==
  IF chunks = <<>> THEN 0 ELSE Head(chunks) + TotalBytes(Tail(chunks))

\* C18: when the body of a response, 2xx or not, is larger than
\* maxResponseBytes, getJson rejects with ResponseTooLargeError and the
\* breaker is told of exactly one failure.
C18_TooLargeIsOneFailure ==
  \A q \in BagToSet(jsonCalls) : q.pc = "body" =>
    \A body \in Bodies :
      (body.reader /\ TotalBytes(body.chunks) > maxResponseBytes) =>
        LET r == getJsonAfterBody(circuit, maxResponseBytes, q.status, body)
        IN  /\ r.returned /\ r.error = "ResponseTooLargeError"
            /\ r.reports = 1
            /\ r.c = circuitOnFailure(circuit)

\* C19: every getJson call that passed beforeRequest() has called exactly one
\* of onSuccess() and onFailure() by the time it settles, whatever the
\* external signal did.
C19_ExactlyOneReport ==
  /\ (jsonLast.returned /\ jsonLast.admitted) => jsonLast.reports = 1
  /\ jsonCalls = EmptyBag => jsonHist.reported = jsonHist.admitted

\* C20: halfOpenTrialInProgress is set only while the state is HALF_OPEN and
\* a call admitted in HALF_OPEN is in flight; with no call in flight it is
\* false.
C20_LatchMeansTrialInFlight ==
  /\ circuit.halfOpenTrialInProgress =>
       circuit.state = HALF_OPEN /\ JsonTrialsInFlight > 0
  /\ jsonCalls = EmptyBag => ~circuit.halfOpenTrialInProgress

\* The single trigger n of a breaker built with failureTriggers = {n}.
TriggerOf(c) == CHOOSE n \in c.failureTriggers : TRUE

\* C33: with failureTriggers = {n}, the Set-membership test of onFailure()
\* decides as consecutiveFailures >= n does: a CLOSED breaker opens exactly
\* when the n-th failure in a row is reported, never earlier, and the count
\* never reaches n with the breaker left CLOSED.
C33_SetActsAsThreshold ==
  LET n == TriggerOf(circuit)
      c1 == circuit.consecutiveFailures + 1
  IN  /\ (c1 \in circuit.failureTriggers) <=> (c1 >= n)
      /\ circuit.consecutiveFailures < n
      /\ circuit.state = CLOSED =>
            circuit.consecutiveFailures = jsonHist.streak
      /\ (jsonLast.pre = CLOSED /\ jsonLast.reports = 1
            /\ jsonLast.error # "") =>
            (circuit.state = OPEN <=> jsonHist.streak = n)

\* A CLOSED breaker with n = 2 opened on the second failure in a row.
C33_Witness ==
  /\ TriggerOf(circuit) = 2 /\ jsonLast.pre = CLOSED
  /\ jsonLast.reports = 1 /\ jsonLast.error # ""
  /\ jsonHist.streak = 2 /\ circuit.state = OPEN

\* C39: a cooldown timer is pending exactly when the state is OPEN, and at
\* most one timer is pending: entering OPEN again replaces the pending one.
C39_OneTimerExactlyWhenOpen ==
  /\ circuit.openTimer <=> circuit.state = OPEN
  /\ circuit.timers = (IF circuit.state = OPEN THEN 1 ELSE 0)

\* An OPEN breaker was told of a failure that reached the trigger again and
\* entered OPEN a second time.
C39_Witness ==
  /\ jsonLast.pre = OPEN /\ jsonLast.reports = 1 /\ jsonLast.error # ""
  /\ circuit.state = OPEN /\ circuit.consecutiveFailures = 0
  /\ circuit.timers = 1


(***************************************************************************)
(* Part 4: ResilientClient (taller/src/resilient-client.ts).               *)
(*                                                                         *)
(* getUserData() checks the userId, and runs fetchAction inside execute(): *)
(* execute() fails fast or admits (OPEN becomes HALF-OPEN after the        *)
(* cooldown), fetchAction suspends at the fetch and at res.text(), and     *)
(* execute() runs success() or failure() when fetchAction settles.         *)
(* getUserData() catches whatever execute() throws.  The timer is a        *)
(* promise of timers/promises: clearTimeout() does not cancel it, so it    *)
(* aborts the controller FETCH_TIMEOUT_MS after the call started if the    *)
(* call is still suspended.                                                *)
(***************************************************************************)
FAILURE_THRESHOLD == 3
RESET_TIMEOUT_MS  == 5000
FETCH_TIMEOUT_MS  == 3000

HALFOPEN == "HALF-OPEN"
BreakerState == {CLOSED, OPEN, HALFOPEN}

TallerBreaker(st, count, time) ==
  [state |-> st, failureCount |-> count, lastFailureTime |-> time]

\* execute() at time t up to `await action()': the breaker it leaves, and
\* whether action() is called (else CircuitBreakerOpenError is thrown).
execute_Inclusive(b, t) ==
  IF b.state = OPEN
  THEN IF t >= b.lastFailureTime + RESET_TIMEOUT_MS
       THEN [b |-> [b EXCEPT !.state = HALFOPEN], ok |-> TRUE]
       ELSE [b |-> b, ok |-> FALSE]
  ELSE [b |-> b, ok |-> TRUE]

execute(b, t) ==
  IF b.state = OPEN
  THEN IF t > b.lastFailureTime + RESET_TIMEOUT_MS
       THEN [b |-> [b EXCEPT !.state = HALFOPEN], ok |-> TRUE]
       ELSE [b |-> b, ok |-> FALSE]
  ELSE [b |-> b, ok |-> TRUE]

\* failure() at time t.
failure(b, t) ==
  LET c == [b EXCEPT !.failureCount = @ + 1, !.lastFailureTime = t]
  IN  IF c.state = HALFOPEN THEN [c EXCEPT !.state = OPEN]
      ELSE IF c.state = CLOSED /\ c.failureCount >= FAILURE_THRESHOLD
           THEN [c EXCEPT !.state = OPEN]
      ELSE c

\* success().
success(b) == [b EXCEPT !.failureCount = 0, !.state = CLOSED]

\* A userId: string | number.
StringId(text) == [isString |-> TRUE, text |-> text, number |-> 0]
NumberId(n)    == [isString |-> FALSE, text |-> "", number |-> n]
TallerUserIds  == {StringId(""), StringId("42"), NumberId(0), NumberId(7)}
\* !userId
Falsy(userId) ==
  IF userId.isString THEN userId.text = "" ELSE userId.number = 0

\* How the promise of getUserData() stands.
TallerPending         == [settled |-> FALSE, value |-> "", error |-> ""]
TallerResolved(value) == [settled |-> TRUE, value |-> value, error |-> ""]
TallerRejected(error) == [settled |-> TRUE, value |-> "", error |-> error]

\* One synchronous stretch of getUserData(): the breaker it leaves, how the
\* promise stands, which of success()/failure() ran ("none" if neither),
\* whether fetch was called, and what went wrong ("none" if nothing did).
TallerStep(b, promise, ran, fetched, cause) ==
  [b |-> b, promise |-> promise, ran |-> ran, fetched |-> fetched,
   cause |-> cause]

\* What getUserData() does in its catch block with an error thrown by
\* execute(): it logs it and returns null.
getUserDataCatch(error) == TallerResolved("null")

\* getUserData(userId) at time t up to its first await.
getUserData(b, t, userId) ==
  IF Falsy(userId)
  THEN TallerStep(b, TallerRejected("userId is required."), "none", FALSE,
                  "userId")
  ELSE LET e == execute(b, t)
       IN  IF ~e.ok
           THEN TallerStep(e.b,
                           getUserDataCatch("Circuit Breaker is OPEN. Failing fast."),
                           "none", FALSE, "open")
           ELSE TallerStep(e.b, TallerPending, "none", TRUE, "none")

\* What fetch can do, and what res.text() followed by JSON.parse() can do.
TallerFetchOutcomes ==
  { Resp(TRUE, 200), Resp(FALSE, 500), Throw("TypeError", "fetch failed") }
TallerTextOutcomes == {"user", "invalidJson", "readError"}

\* execute() after action() threw: failure(), and the error goes to the
\* catch block of getUserData().
executeCatch(b, t, error, cause) ==
  TallerStep(failure(b, t), getUserDataCatch(error), "failure", FALSE, cause)

\* The call resumed at time t by fetch settling with o.
afterFetch(b, t, o) ==
  IF o.kind = "throw" THEN executeCatch(b, t, o.message, "network")
  ELSE IF ~o.ok THEN executeCatch(b, t, "External API Error: 500", "status")
  ELSE TallerStep(b, TallerPending, "none", FALSE, "none")

\* The call resumed at time t by res.text() settling.
afterText(b, t, o) ==
  IF o = "readError" THEN executeCatch(b, t, "terminated", "network")
  ELSE IF o = "invalidJson"
       THEN executeCatch(b, t, "Invalid JSON response from external API",
                         "json")
  ELSE TallerStep(success(b), TallerResolved("user"), "success", FALSE, "none")

\* The call resumed at time t by the abort of its controller.
afterAbort(b, t) ==
  executeCatch(b, t, "Fetch timeout after 3000ms", "timeout")

(* ------------------------- part 4: actions ----------------------------- *)
TallerNoLast ==
  [op |-> "init", pre |-> CLOSED, ran |-> "none", cause |-> "none",
   outcome |-> "pending"]

\* How a step ended for the caller.
TallerOutcome(r) ==
  IF ~r.promise.settled THEN "pending"
  ELSE IF r.promise.error # "" THEN "rejected"
  ELSE r.promise.value

TallerInit ==
  /\ tallerBreaker = TallerBreaker(CLOSED, 0, 0)
  /\ tallerNow = 1
  /\ tallerCalls = EmptyBag
  /\ tallerCount = 0
  /\ tallerLast = TallerNoLast
  /\ NoResilientClient /\ NoHttpClient /\ NoJsonClient
  /\ NoFirstClient /\ NoModule /\ NoRetryClient /\ NoNextAttemptClient /\ NoLastClient

TallerRecord(op, r) ==
  tallerLast' = [op |-> op, pre |-> tallerBreaker.state, ran |-> r.ran,
                 cause |-> r.cause, outcome |-> TallerOutcome(r)]

TallerGetUserData ==
  \E userId \in TallerUserIds :
    LET r == getUserData(tallerBreaker, tallerNow, userId)
    IN  /\ ~Falsy(userId) => tallerCount < TallerMaxCalls
        /\ r.fetched => BagCardinality(tallerCalls) < TallerMaxInFlight
        /\ tallerBreaker' = r.b
        /\ tallerCount' = IF Falsy(userId) THEN tallerCount ELSE tallerCount + 1
        /\ tallerCalls' =
             IF r.fetched
             THEN tallerCalls (+) SetToBag({[pc |-> "fetch",
                                            deadline |-> tallerNow + FETCH_TIMEOUT_MS]})
             ELSE tallerCalls
        /\ TallerRecord("call", r)
        /\ UNCHANGED <<tallerNow, rest4>>

\* The call q is resumed and runs to its next await or to its end.
TallerSettled(q, r) ==
  /\ tallerBreaker' = r.b
  /\ tallerCalls' =
       IF r.promise.settled
       THEN tallerCalls (-) SetToBag({q})
       ELSE (tallerCalls (-) SetToBag({q})) (+) SetToBag({[q EXCEPT !.pc = "text"]})
  /\ TallerRecord("settle", r)
  /\ UNCHANGED <<tallerNow, tallerCount, rest4>>

TallerFetchSettles ==
  \E q \in BagToSet(tallerCalls), o \in TallerFetchOutcomes :
    /\ q.pc = "fetch"
    /\ TallerSettled(q, afterFetch(tallerBreaker, tallerNow, o))

TallerTextSettles ==
  \E q \in BagToSet(tallerCalls), o \in TallerTextOutcomes :
    /\ q.pc = "text"
    /\ TallerSettled(q, afterText(tallerBreaker, tallerNow, o))

TallerTimerFires ==
  \E q \in BagToSet(tallerCalls) :
    /\ tallerNow >= q.deadline
    /\ TallerSettled(q, afterAbort(tallerBreaker, tallerNow))

\* The instants the clock takes.
TallerInstants ==
  { 1 + e + k * (RESET_TIMEOUT_MS - 1) : e \in 0..TallerMaxElapsed, k \in 0..1 }

TallerAdvance(d) ==
  /\ tallerNow + d \in TallerInstants
  /\ tallerNow' = tallerNow + d
  /\ UNCHANGED <<tallerBreaker, tallerCalls, tallerCount, tallerLast, rest4>>

TallerNext ==
  \/ TallerGetUserData
  \/ TallerFetchSettles
  \/ TallerTextSettles
  \/ TallerTimerFires
  \/ \E d \in {1, RESET_TIMEOUT_MS - 1} : TallerAdvance(d)

TallerSpec == TallerInit /\ [][TallerNext]_allVars

TallerTypeOK ==
  /\ tallerBreaker.state \in BreakerState
  /\ tallerBreaker.failureCount \in 0..TallerMaxCalls
  /\ tallerBreaker.lastFailureTime \in {0} \cup TallerInstants
  /\ tallerNow \in TallerInstants
  /\ BagCardinality(tallerCalls) <= TallerMaxInFlight
  /\ tallerCount \in 0..TallerMaxCalls

(* --------------------------- part 4: claims ---------------------------- *)
\* C21: every failure of getUserData() -- the circuit open (fail fast), a
\* timeout, a non-ok HTTP status, invalid JSON, a network error -- reaches
\* the caller as an error: the promise is rejected, and it is never resolved
\* with null in place of the error.
C21_FailuresAreRejections ==
  tallerLast.cause # "none" => tallerLast.outcome = "rejected"

\* C28: the state changes only along CLOSED -> OPEN, OPEN -> HALF-OPEN,
\* HALF-OPEN -> CLOSED and HALF-OPEN -> OPEN, and success() is never executed
\* while the state is OPEN.
C28_OnlyTheFourTransitions ==
  /\ tallerLast.pre # tallerBreaker.state =>
       <<tallerLast.pre, tallerBreaker.state>> \in
         { <<CLOSED, OPEN>>, <<OPEN, HALFOPEN>>,
           <<HALFOPEN, CLOSED>>, <<HALFOPEN, OPEN>> }
  /\ tallerLast.ran = "success" => tallerLast.pre # OPEN

FirstClient(threshold) ==
  [state |-> CLOSED, failureCount |-> 0, lastFailureTime |-> 0,
   failureThreshold |-> IF threshold = 0 THEN 3 ELSE threshold,
   resetTimeoutMs |-> 5000]

\* checkStateTransition() at time t.
checkStateTransition(c, t) ==
  IF c.state = OPEN /\ t - c.lastFailureTime >= c.resetTimeoutMs
  THEN [c EXCEPT !.state = HALFOPEN]
  ELSE c

\* onSuccess() of the first client.
rcOnSuccess(c) ==
  IF c.state = HALFOPEN
  THEN [c EXCEPT !.state = CLOSED, !.failureCount = 0]
  ELSE c

\* onFailure() of the first client at time t.
rcOnFailure(c, t) ==
  LET d == [c EXCEPT !.failureCount = @ + 1, !.lastFailureTime = t]
  IN  IF d.state = HALFOPEN THEN [d EXCEPT !.state = OPEN]
      ELSE IF d.state = CLOSED /\ d.failureCount >= d.failureThreshold
           THEN [d EXCEPT !.state = OPEN]
      ELSE d

\* reset() of the first client.
rcReset(c) ==
  [c EXCEPT !.state = CLOSED, !.failureCount = 0, !.lastFailureTime = 0]

\* One synchronous stretch of getUserData(): the client it leaves, whether
\* the promise settled, the error it was rejected with ("" if none), which of
\* onSuccess()/onFailure() ran, whether fetch was called.
FirstStep(c, settled, error, ran, fetched) ==
  [c |-> c, settled |-> settled, error |-> error, ran |-> ran,
   fetched |-> fetched]

\* getUserData(userId) at time t up to its first await.
rcGetUserData(c, t, userId) ==
  IF userId = ""
  THEN FirstStep(c, TRUE, "Invalid userId: must be a non-empty string",
                 "none", FALSE)
  ELSE LET d == checkStateTransition(c, t)
       IN  IF d.state = OPEN
           THEN FirstStep(d, TRUE, "Circuit breaker is OPEN", "none", FALSE)
           ELSE FirstStep(d, FALSE, "", "none", TRUE)

\* attemptRequest() after callApi() threw.
attemptRequestCatch(c, t, error) ==
  FirstStep(rcOnFailure(c, t), TRUE, error, "failure", FALSE)

\* What fetch and response.json() can do while the timer is armed.
FirstFetchOutcomes ==
  { Resp(TRUE, 200), Resp(FALSE, 500),
    Throw("AbortError", "This operation was aborted"),
    Throw("TypeError", "fetch failed") }
FirstJsonOutcomes == {"data", "invalidJson", "aborted"}

\* callApi() and attemptRequest() resumed at time t by fetch settling with o.
callApiAfterFetch(c, t, o) ==
  IF o.kind = "throw"
  THEN IF o.name = "AbortError"
       THEN attemptRequestCatch(c, t, "Request timeout after 2000ms")
       ELSE attemptRequestCatch(c, t, o.message)
  ELSE IF ~o.ok THEN attemptRequestCatch(c, t, "HTTP Error: 500")
  ELSE FirstStep(c, FALSE, "", "none", FALSE)

\* callApi() and attemptRequest() resumed at time t by response.json().
callApiAfterJson(c, t, o) ==
  IF o = "data" THEN FirstStep(rcOnSuccess(c), TRUE, "", "success", FALSE)
  ELSE attemptRequestCatch(c, t, "Failed to parse JSON response")

(* ------------------------- part 5: actions ----------------------------- *)
\* streak: the failures reported since the last success, reset or start.
FirstHist(streak, op, pre, ran) ==
  [streak |-> streak, op |-> op, pre |-> pre, ran |-> ran]

FirstInit ==
  /\ \E threshold \in 0..FirstMaxThreshold : rc = FirstClient(threshold)
  /\ rcNow = 1
  /\ rcCalls = EmptyBag
  /\ rcCount = 0
  /\ rcHist = FirstHist(0, "init", CLOSED, "none")
  /\ NoResilientClient /\ NoHttpClient /\ NoJsonClient
  /\ NoTallerClient /\ NoModule /\ NoRetryClient /\ NoNextAttemptClient /\ NoLastClient

FirstRecord(op, r) ==
  rcHist' = FirstHist(IF r.ran = "failure" THEN rcHist.streak + 1
                      ELSE IF r.ran = "success" THEN 0
                      ELSE rcHist.streak,
                      op, rc.state, r.ran)

FirstGetUserData ==
  \E userId \in {"", "42"} :
    LET r == rcGetUserData(rc, rcNow, userId)
    IN  /\ userId # "" => rcCount < FirstMaxCalls
        /\ rc' = r.c
        /\ rcCount' = IF userId = "" THEN rcCount ELSE rcCount + 1
        /\ rcCalls' = IF r.fetched
                      THEN rcCalls (+) SetToBag({"fetch"})
                      ELSE rcCalls
        /\ FirstRecord("call", r)
        /\ UNCHANGED <<rcNow, rest5>>

FirstSettled(pc, r) ==
  /\ rc' = r.c
  /\ rcCalls' = IF r.settled
                THEN rcCalls (-) SetToBag({pc})
                ELSE (rcCalls (-) SetToBag({pc})) (+) SetToBag({"json"})
  /\ FirstRecord("settle", r)
  /\ UNCHANGED <<rcNow, rcCount, rest5>>

FirstFetchSettles ==
  \E o \in FirstFetchOutcomes :
    /\ BagIn("fetch", rcCalls)
    /\ FirstSettled("fetch", callApiAfterFetch(rc, rcNow, o))

FirstJsonSettles ==
  \E o \in FirstJsonOutcomes :
    /\ BagIn("json", rcCalls)
    /\ FirstSettled("json", callApiAfterJson(rc, rcNow, o))

FirstReset ==
  /\ rc' = rcReset(rc)
  /\ rcHist' = FirstHist(0, "reset", rc.state, "none")
  /\ UNCHANGED <<rcNow, rcCalls, rcCount, rest5>>

FirstAdvance ==
  /\ rcNow + rc.resetTimeoutMs <= 1 + FirstMaxCooldowns * rc.resetTimeoutMs
  /\ rcNow' = rcNow + rc.resetTimeoutMs
  /\ UNCHANGED <<rc, rcCalls, rcCount, rcHist, rest5>>

FirstNext ==
  \/ FirstGetUserData
  \/ FirstFetchSettles
  \/ FirstJsonSettles
  \/ FirstReset
  \/ FirstAdvance

FirstSpec == FirstInit /\ [][FirstNext]_allVars

FirstTypeOK ==
  /\ rc.state \in BreakerState
  /\ rc.failureCount \in 0..FirstMaxCalls
  /\ rc.failureThreshold \in 1..(IF FirstMaxThreshold > 3 THEN FirstMaxThreshold ELSE 3)
  /\ rcCount \in 0..FirstMaxCalls
  /\ BagCardinality(rcCalls) <= FirstMaxCalls

(* --------------------------- part 5: claims ---------------------------- *)
\* C22: failureCount counts consecutive failures: it equals the number of
\* failures since the last success, a success reported while CLOSED leaves
\* it at 0, and the circuit goes from CLOSED to OPEN only when
\* failureThreshold failures have been reported with no success between
\* them (so, with threshold 3, fail, fail, success, fail leaves it CLOSED).
C22_ConsecutiveFailures ==
  /\ rcHist.op = "settle" => rc.failureCount = rcHist.streak
  /\ (rcHist.ran = "success" /\ rcHist.pre = CLOSED) => rc.failureCount = 0
  /\ (rcHist.ran = "failure" /\ rcHist.pre = CLOSED /\ rc.state = OPEN) =>
       rcHist.streak >= rc.failureThreshold


(***************************************************************************)
(* Part 6: the module-level breaker of unnamed/part_008.                   *)
(*                                                                         *)
(* getUserProfile() and updateUserStatus() await                           *)
(* fetchWithCircuitBreaker() and then response.json().                     *)
(* fetchWithCircuitBreaker() asks canAttemptRequest(), arms a timer,       *)
(* awaits fetch and calls recordSuccess() or recordFailure() before it     *)
(* returns the response or throws.                                         *)
(***************************************************************************)
FAILURE_THRESHOLD_008 == 3
RESET_TIMEOUT         == 5000

\* `let state', `let consecutiveFailures', `let lastFailureTime'.
ModuleBreaker ==
  [state |-> CLOSED, consecutiveFailures |-> 0, lastFailureTime |-> 0]

recordSuccess(b) ==
  LET c == [b EXCEPT !.consecutiveFailures = 0]
  IN  IF c.state = HALF_OPEN THEN [c EXCEPT !.state = CLOSED] ELSE c

\* recordFailure() at time t.
recordFailure(b, t) ==
  LET c == [b EXCEPT !.consecutiveFailures = @ + 1]
  IN  IF c.consecutiveFailures >= FAILURE_THRESHOLD_008
      THEN [c EXCEPT !.state = OPEN, !.lastFailureTime = t]
      ELSE c

\* canAttemptRequest() at time t: the breaker it leaves and the answer.
canAttemptRequest(b, t) ==
  IF b.state = CLOSED THEN [b |-> b, ok |-> TRUE]
  ELSE IF b.state = OPEN
       THEN IF t - b.lastFailureTime > RESET_TIMEOUT
            THEN [b |-> [b EXCEPT !.state = HALF_OPEN], ok |-> TRUE]
            ELSE [b |-> b, ok |-> FALSE]
  ELSE [b |-> b, ok |-> TRUE]

\* One synchronous stretch of getUserProfile()/updateUserStatus(): the
\* breaker it leaves, whether the promise settled, the error it was rejected
\* with ("" if none), which of recordSuccess()/recordFailure() ran, whether
\* fetch was called, and what went wrong ("none" if nothing did).
ModStep(b, settled, error, ran, fetched, cause) ==
  [b |-> b, settled |-> settled, error |-> error, ran |-> ran,
   fetched |-> fetched, cause |-> cause]

\* fetchWithCircuitBreaker() at time t up to `await fetch'.
fetchWithCircuitBreaker(b, t) ==
  LET a == canAttemptRequest(b, t)
  IN  IF ~a.ok
      THEN ModStep(a.b, TRUE, "Circuit Breaker is open. Request blocked.",
                   "none", FALSE, "open")
      ELSE ModStep(a.b, FALSE, "", "none", TRUE, "none")

\* What fetch can do while the timer is armed, and what response.json() can
\* do.
ModFetchOutcomes ==
  { Resp(TRUE, 200), Resp(FALSE, 500),
    Throw("AbortError", "This operation was aborted"),
    Throw("TypeError", "fetch failed") }
ModJsonOutcomes == {"data", "invalidJson", "readError"}

\* fetchWithCircuitBreaker() resumed at time t by fetch settling with o; when
\* it returns the response, the caller goes on to `await response.json()'.
fetchWithCircuitBreakerAfterFetch(b, t, o) ==
  IF o.kind = "throw"
  THEN ModStep(recordFailure(b, t), TRUE, o.message, "failure", FALSE,
               IF o.name = "AbortError" THEN "timeout" ELSE "network")
  ELSE IF ~o.ok
       THEN ModStep(recordFailure(b, t), TRUE, "HTTP error! status: 500",
                    "failure", FALSE, "status")
  ELSE ModStep(recordSuccess(b), FALSE, "", "success", FALSE, "none")

\* getUserProfile()/updateUserStatus() resumed by response.json() settling.
getUserProfileAfterJson(b, o) ==
  IF o = "data" THEN ModStep(b, TRUE, "", "none", FALSE, "none")
  ELSE IF o = "invalidJson"
       THEN ModStep(b, TRUE, "Unexpected token < in JSON", "none", FALSE, "json")
  ELSE ModStep(b, TRUE, "terminated", "none", FALSE, "network")

(* ------------------------- part 6: actions ----------------------------- *)
\* recorded: what the call of the last step has reported to the breaker so
\* far; before: consecutiveFailures when the step began.
\* pc: where the call of the last step was suspended ("fetch", "trial" for
\* the fetch of a call admitted in HALF_OPEN, "json"; "start" for a new call).
ModNoLast ==
  [op |-> "init", pc |-> "start", cause |-> "none", recorded |-> "none",
   before |-> 0]

ModInit ==
  /\ modBreaker = ModuleBreaker
  /\ modNow = 1
  /\ modCalls = EmptyBag
  /\ modCount = 0
  /\ modLast = ModNoLast
  /\ NoResilientClient /\ NoHttpClient /\ NoJsonClient
  /\ NoTallerClient /\ NoFirstClient /\ NoRetryClient /\ NoNextAttemptClient /\ NoLastClient

ModRecord(op, pc, r) ==
  modLast' = [op |-> op, pc |-> pc, cause |-> r.cause,
              recorded |-> IF pc = "json" THEN "success" ELSE r.ran,
              before |-> modBreaker.consecutiveFailures]

\* getUserProfile(userId, apiKey) or updateUserStatus(userId, status, apiKey).
ModCall ==
  LET r == fetchWithCircuitBreaker(modBreaker, modNow)
  IN  /\ modCount < ModMaxCalls
      /\ modBreaker' = r.b
      /\ modCount' = modCount + 1
      /\ modCalls' = IF r.fetched
                     THEN modCalls (+) SetToBag({IF r.b.state = HALF_OPEN
                                                 THEN "trial" ELSE "fetch"})
                     ELSE modCalls
      /\ ModRecord("call", "start", r)
      /\ UNCHANGED <<modNow, rest6>>

ModSettled(pc, r) ==
  /\ modBreaker' = r.b
  /\ modCalls' = IF r.settled
                 THEN modCalls (-) SetToBag({pc})
                 ELSE (modCalls (-) SetToBag({pc})) (+) SetToBag({"json"})
  /\ ModRecord("settle", pc, r)
  /\ UNCHANGED <<modNow, modCount, rest6>>

ModFetchSettles ==
  \E pc \in {"fetch", "trial"}, o \in ModFetchOutcomes :
    /\ BagIn(pc, modCalls)
    /\ ModSettled(pc, fetchWithCircuitBreakerAfterFetch(modBreaker, modNow, o))

ModJsonSettles ==
  \E o \in ModJsonOutcomes :
    /\ BagIn("json", modCalls)
    /\ ModSettled("json", getUserProfileAfterJson(modBreaker, o))

\* The instants the clock takes.
ModInstants ==
  { 1 + e + k * RESET_TIMEOUT : e \in 0..1, k \in 0..ModMaxCooldowns }

ModAdvance(d) ==
  /\ modNow + d \in ModInstants
  /\ modNow' = modNow + d
  /\ UNCHANGED <<modBreaker, modCalls, modCount, modLast, rest6>>

ModNext ==
  \/ ModCall
  \/ ModFetchSettles
  \/ ModJsonSettles
  \/ \E d \in {1, RESET_TIMEOUT} : ModAdvance(d)

ModSpec == ModInit /\ [][ModNext]_allVars

ModTypeOK ==
  /\ modBreaker.state \in CircuitState
  /\ modBreaker.consecutiveFailures \in 0..ModMaxCalls
  /\ modBreaker.lastFailureTime \in {0} \cup ModInstants
  /\ modNow \in ModInstants
  /\ modCount \in 0..ModMaxCalls
  /\ BagCardinality(modCalls) <= ModMaxCalls

(* --------------------------- part 6: claims ---------------------------- *)
\* C23: every failure of an admitted call -- a network error, a timeout, a
\* non-ok status, a JSON body that cannot be decoded -- is reported with
\* recordFailure() and increments consecutiveFailures, and a call whose body
\* cannot be decoded is never recorded as a success.
C23_EveryFailureIsRecorded ==
  /\ (modLast.op = "settle" /\ modLast.cause # "none") =>
       /\ modLast.recorded = "failure"
       /\ modBreaker.consecutiveFailures = modLast.before + 1
  /\ modLast.cause = "json" => modLast.recorded # "success"

\* C31: after a request admitted while the state was HALF_OPEN has settled
\* in fetchWithCircuitBreaker(), the state is CLOSED if it succeeded and OPEN
\* if it failed, never still HALF_OPEN, under every interleaving of calls.
C31_TrialDecidesTheState ==
  (modLast.op = "settle" /\ modLast.pc = "trial") =>
    /\ modLast.recorded = "success" => modBreaker.state = CLOSED
    /\ modLast.recorded = "failure" => modBreaker.state = OPEN

(***************************************************************************)
(* Part 7: ResilientClient.get (taller/src/http/resilient-client.ts).      *)
(*                                                                         *)
(* get() runs executeRequest() in a loop over attempt = 0..maxRetries.     *)
(* executeRequest() suspends at the fetch and at response.text() with one  *)
(* timer over both; between two attempts get() suspends at sleep().        *)
(***************************************************************************)
\* The constructor: `config.maxRetries ?? 3', `config.retryDelay ?? 1000'.
RetryClient(maxRetries, retryDelay) ==
  [maxRetries |-> IF maxRetries = NULL THEN 3 ELSE maxRetries,
   retryDelay |-> IF retryDelay = NULL THEN 1000 ELSE retryDelay]

\* The errors executeRequest() throws.
TimeoutError == [class |-> "TimeoutError", statusCode |-> NULL]
HttpError(statusCode) == [class |-> "HttpError", statusCode |-> statusCode]
OtherError == [class |-> "TypeError", statusCode |-> NULL]
\* No error (lastError = null).
NoLastError == [class |-> "", statusCode |-> NULL]

retryableStatusCodes == {408, 429, 500, 502, 503, 504}

isRetryableError_Never(error) == FALSE

isRetryableError(error) ==
  IF error.class = "TimeoutError" THEN TRUE
  ELSE IF error.class = "HttpError"
       THEN IF error.statusCode # NULL
            THEN error.statusCode \in retryableStatusCodes
            ELSE FALSE
  ELSE FALSE

RECURSIVE Pow2(_)
Pow2(n) == IF n = 0 THEN 1 ELSE 2 * Pow2(n - 1)

calculateBackoff(c, attempt) == c.retryDelay * Pow2(attempt)

\* What fetch can do while the timer is armed, and what response.text()
\* followed by JSON.parse() can do.
RetryFetchOutcomes ==
  { Resp(TRUE, 200), Resp(FALSE, 404), Resp(FALSE, 429), Resp(FALSE, 500),
    Throw("AbortError", "This operation was aborted"),
    Throw("TypeError", "fetch failed") }
RetryTextOutcomes == {"json", "invalidJson", "aborted", "readError"}

\* A get() call suspended in attempt number `attempt' at pc; delay is the
\* time it sleeps (0 unless pc = "sleep").
GetCall(attempt, pc, delay) == [attempt |-> attempt, pc |-> pc, delay |-> delay]
\* A get() call that has returned or thrown.
Returned == GetCall(0, "done", 0)

\* One stretch of get(): whether the promise settled, and how; the call as it
\* is suspended otherwise; the error of the attempt that failed (NoLastError
\* if none); the value get() threw (NoLastError if it did not throw);
\* whether executeRequest() called fetch.
GetStep(settled, ok, call, error, thrown, fetched) ==
  [settled |-> settled, ok |-> ok, call |-> call, error |-> error,
   thrown |-> thrown, fetched |-> fetched]

\* get(path) up to its first await: attempt 0, or no attempt at all.
get(c) ==
  IF 0 <= c.maxRetries
  THEN GetStep(FALSE, FALSE, GetCall(0, "fetch", 0), NoLastError, NoLastError,
               TRUE)
  ELSE GetStep(TRUE, FALSE, Returned, NoLastError, NoLastError, FALSE)

\* A catch block that takes the attempt after maxRetries for the last one.
getCatch_OneMore(c, q, error) ==
  IF q.attempt = c.maxRetries + 1
  THEN GetStep(TRUE, FALSE, Returned, error, error, FALSE)
  ELSE IF ~isRetryableError(error)
  THEN GetStep(TRUE, FALSE, Returned, error, error, FALSE)
  ELSE GetStep(FALSE, FALSE,
               GetCall(q.attempt, "sleep", calculateBackoff(c, q.attempt)),
               error, NoLastError, FALSE)

\* A catch block that sleeps before it looks at the error.
getCatch_SleepsFirst(c, q, error) ==
  IF q.attempt = c.maxRetries
  THEN GetStep(TRUE, FALSE, Returned, error, error, FALSE)
  ELSE GetStep(FALSE, FALSE,
               GetCall(q.attempt, "sleep", calculateBackoff(c, q.attempt)),
               error, NoLastError, FALSE)

\* The catch block of get() for the error of attempt number q.attempt:
\* `break' leads to `throw lastError', a non-retryable error is rethrown.
getCatch(c, q, error) ==
  LET lastError == error
  IN  IF q.attempt = c.maxRetries
      THEN GetStep(TRUE, FALSE, Returned, error, lastError, FALSE)
      ELSE IF ~isRetryableError(error)
      THEN GetStep(TRUE, FALSE, Returned, error, error, FALSE)
      ELSE GetStep(FALSE, FALSE,
                   GetCall(q.attempt, "sleep", calculateBackoff(c, q.attempt)),
                   error, NoLastError, FALSE)

\* executeRequest() resumed by fetch settling with o.
executeRequestAfterFetch(c, q, o) ==
  IF o.kind = "throw"
  THEN IF o.name = "AbortError" THEN getCatch(c, q, TimeoutError)
       ELSE getCatch(c, q, OtherError)
  ELSE IF ~o.ok THEN getCatch(c, q, HttpError(o.status))
  ELSE GetStep(FALSE, FALSE, GetCall(q.attempt, "text", 0), NoLastError,
               NoLastError, FALSE)

\* executeRequest() resumed by response.text() settling.
executeRequestAfterText(c, q, o) ==
  IF o = "json"
  THEN GetStep(TRUE, TRUE, Returned, NoLastError, NoLastError, FALSE)
  ELSE IF o = "invalidJson" THEN getCatch(c, q, HttpError(NULL))
  ELSE IF o = "aborted" THEN getCatch(c, q, TimeoutError)
  ELSE getCatch(c, q, OtherError)

\* get() resumed by the timer of sleep(): the next attempt.
getAfterSleep(c, q) ==
  GetStep(FALSE, FALSE, GetCall(q.attempt + 1, "fetch", 0), NoLastError,
          NoLastError, TRUE)

(* ------------------------- part 7: actions ----------------------------- *)
\* attempts: the number of executeRequest() calls of the get() call of the
\* last step; error: the error of its last attempt; thrown: what get()
\* threw; slept: whether the step left the call in sleep().
RetryNoLast ==
  [op |-> "init", attempts |-> 0, outcome |-> "pending", error |-> NoLastError,
   thrown |-> NoLastError, slept |-> FALSE]

RetryInit ==
  /\ \E m \in (0..RetryMaxRetries) \cup {NULL} : retryClient = RetryClient(m, NULL)
  /\ getCalls = EmptyBag
  /\ getCount = 0
  /\ getLast = RetryNoLast
  /\ NoResilientClient /\ NoHttpClient /\ NoJsonClient
  /\ NoTallerClient /\ NoFirstClient /\ NoModule /\ NoNextAttemptClient /\ NoLastClient

RetryRecord(op, attempts, r) ==
  getLast' = [op |-> op, attempts |-> attempts,
              outcome |-> IF ~r.settled THEN "pending"
                          ELSE IF r.ok THEN "resolved" ELSE "rejected",
              error |-> r.error, thrown |-> r.thrown,
              slept |-> ~r.settled /\ r.call.pc = "sleep"]

Get ==
  LET r == get(retryClient)
  IN  /\ getCount < RetryMaxCalls
      /\ getCount' = getCount + 1
      /\ getCalls' = IF r.settled THEN getCalls
                     ELSE getCalls (+) SetToBag({r.call})
      /\ RetryRecord("get", IF r.fetched THEN 1 ELSE 0, r)
      /\ UNCHANGED <<retryClient, rest7>>

GetResumed(q, r) ==
  /\ getCalls' = IF r.settled THEN getCalls (-) SetToBag({q})
                 ELSE (getCalls (-) SetToBag({q})) (+) SetToBag({r.call})
  /\ RetryRecord(IF r.fetched THEN "retry" ELSE "settle",
                 IF r.fetched THEN q.attempt + 2 ELSE q.attempt + 1, r)
  /\ UNCHANGED <<retryClient, getCount, rest7>>

RetryFetchSettles ==
  \E q \in BagToSet(getCalls), o \in RetryFetchOutcomes :
    /\ q.pc = "fetch"
    /\ GetResumed(q, executeRequestAfterFetch(retryClient, q, o))

RetryTextSettles ==
  \E q \in BagToSet(getCalls), o \in RetryTextOutcomes :
    /\ q.pc = "text"
    /\ GetResumed(q, executeRequestAfterText(retryClient, q, o))

SleepEnds ==
  \E q \in BagToSet(getCalls) :
    /\ q.pc = "sleep"
    /\ GetResumed(q, getAfterSleep(retryClient, q))

RetryNext ==
  \/ Get
  \/ RetryFetchSettles
  \/ RetryTextSettles
  \/ SleepEnds

RetrySpec == RetryInit /\ [][RetryNext]_allVars

\* The timer of executeRequest() aborts a fetch or a read of the body that
\* does not settle by itself, and the timer of sleep() fires: a suspended
\* call is always resumed.
RetryLiveSpec ==
  /\ RetryInit /\ [][RetryNext]_allVars
  /\ WF_allVars(RetryFetchSettles)
  /\ WF_allVars(RetryTextSettles)
  /\ WF_allVars(SleepEnds)

RetryTypeOK ==
  /\ retryClient.maxRetries \in 0..(IF RetryMaxRetries > 3 THEN RetryMaxRetries ELSE 3)
  /\ getCount \in 0..RetryMaxCalls
  /\ BagCardinality(getCalls) <= RetryMaxCalls
  /\ \A q \in BagToSet(getCalls) : q.pc \in {"fetch", "text", "sleep"}

(* --------------------------- part 7: claims ---------------------------- *)
\* C24 (as stated): each get() call performs exactly one network attempt:
\* no call is ever in a second attempt or asleep between two attempts, and a
\* call that has settled has made one attempt.
C24_ExactlyOneAttempt ==
  /\ \A q \in BagToSet(getCalls) : q.attempt = 0 /\ q.pc # "sleep"
  /\ getLast.outcome # "pending" => getLast.attempts = 1

\* C24 (amended): each get() call makes at least one and at most
\* maxRetries + 1 network attempts.  It sleeps retryDelay * 2^attempt and
\* tries again only after an attempt that failed with a retryable error (a
\* timeout, or HTTP 408, 429, 500, 502, 503, 504) and was not the last one;
\* it resolves on the first attempt that succeeds, and it rejects after an
\* attempt with a retryable error only when maxRetries + 1 attempts have
\* been made.
C24_AttemptsWithinMaxRetries ==
  LET Retryable(e) ==
        \/ e.class = "TimeoutError"
        \/ e.class = "HttpError" /\ e.statusCode \in {408, 429, 500, 502, 503, 504}
  IN
  /\ \A q \in BagToSet(getCalls) :
       /\ q.attempt \in 0..retryClient.maxRetries
       /\ q.pc = "sleep" =>
            /\ q.attempt < retryClient.maxRetries
            /\ q.delay = retryClient.retryDelay * Pow2(q.attempt)
  /\ getLast.op # "init" => getLast.attempts \in 1..(retryClient.maxRetries + 1)
  /\ (getLast.op = "settle" /\ getLast.outcome = "pending") =>
       \/ getLast.error = NoLastError
       \/ /\ Retryable(getLast.error)
          /\ \E q \in BagToSet(getCalls) :
               q.pc = "sleep" /\ q.attempt = getLast.attempts - 1
  /\ (getLast.outcome = "rejected" /\ Retryable(getLast.error)) =>
       getLast.attempts = retryClient.maxRetries + 1
  /\ getLast.outcome = "resolved" => getLast.error = NoLastError

\* A get() call has been rejected after its retries: with maxRetries > 0 it
\* made maxRetries + 1 attempts.
C24_Witness ==
  /\ getLast.op = "settle" /\ getLast.outcome = "rejected"
  /\ getLast.error = HttpError(500)
  /\ retryClient.maxRetries > 0
  /\ getLast.attempts = retryClient.maxRetries + 1

\* The safety half of C35.
C35_AtMostMaxRetriesPlusOne ==
  /\ \A q \in BagToSet(getCalls) :
       /\ q.attempt + 1 <= retryClient.maxRetries + 1
       /\ q.pc = "text" =>
            LET r == executeRequestAfterText(retryClient, q, "json")
            IN  r.settled /\ r.ok /\ ~r.fetched
  /\ getLast.attempts <= retryClient.maxRetries + 1
  /\ getLast.outcome = "rejected" =>
       getLast.thrown # NoLastError /\ getLast.thrown = getLast.error
  /\ getLast.outcome = "resolved" => getLast.thrown = NoLastError

\* C35: with maxRetries = m >= 0 a get() call makes at most m + 1 fetch
\* attempts and always terminates: it returns the parsed body of the first
\* attempt that succeeds or throws the error of the last attempt it made.
C35_BoundedAndTerminates ==
  /\ []C35_AtMostMaxRetriesPlusOne
  /\ (getCalls # EmptyBag) ~> (getCalls = EmptyBag)

\* A call that made maxRetries + 1 > 1 attempts threw the timeout of its
\* last attempt, and no call is left suspended.
C35_Witness ==
  /\ getLast.outcome = "rejected" /\ retryClient.maxRetries > 0
  /\ getLast.attempts = retryClient.maxRetries + 1
  /\ getLast.thrown = TimeoutError
  /\ getCalls = EmptyBag /\ getCount = RetryMaxCalls

\* C36: an attempt that fails with a non-retryable error (not a
\* TimeoutError, not an HttpError with status 408, 429, 500, 502, 503 or
\* 504: a network error, another status, invalid JSON) makes get() rethrow
\* that error at once, with no further attempt and no backoff sleep.
C36_NonRetryableIsRethrown ==
  LET Retryable(e) ==
        \/ e.class = "TimeoutError"
        \/ e.class = "HttpError" /\ e.statusCode \in {408, 429, 500, 502, 503, 504}
  IN  (getLast.error # NoLastError /\ ~Retryable(getLast.error)) =>
        /\ getLast.outcome = "rejected"
        /\ getLast.thrown = getLast.error
        /\ ~getLast.slept
        /\ getLast.op = "settle"

\* The first attempt of a client with retries answered invalid JSON and
\* get() threw at once.
C36_Witness ==
  /\ retryClient.maxRetries > 0 /\ getLast.attempts = 1
  /\ getLast.error = HttpError(NULL) /\ getLast.outcome = "rejected"
  /\ getLast.thrown = HttpError(NULL)


(***************************************************************************)
(* Part 8: ResilientClient with nextAttemptTime (unnamed/part_010).        *)
(*                                                                         *)
(* getUserData() runs updateCircuitState(), fails fast while OPEN and      *)
(* otherwise awaits makeRequest(), which suspends at the fetch (timer      *)
(* armed) and at response.json(); onSuccess()/onFailure() run when         *)
(* makeRequest() settles.                                                  *)
(***************************************************************************)
\* new ResilientClient(config).
NextAttemptClient(threshold, resetTimeout) ==
  [state |-> CLOSED, failureCount |-> 0, lastFailureTime |-> 0,
   nextAttemptTime |-> 0,
   failureThreshold |-> threshold, resetTimeout |-> resetTimeout]

\* updateCircuitState() at time t.
updateCircuitState(c, t) ==
  IF c.state = OPEN /\ t >= c.nextAttemptTime
  THEN [c EXCEPT !.state = HALF_OPEN]
  ELSE c

\* reset() (private).
naReset(c) ==
  [c EXCEPT !.state = CLOSED, !.failureCount = 0, !.lastFailureTime = 0,
            !.nextAttemptTime = 0]

\* openCircuit() at time t.
openCircuit(c, t) ==
  [c EXCEPT !.state = OPEN, !.nextAttemptTime = t + c.resetTimeout]

\* onSuccess().
naOnSuccess(c) ==
  IF c.state = HALF_OPEN THEN naReset(c)
  ELSE IF c.failureCount > 0 THEN [c EXCEPT !.failureCount = 0]
  ELSE c

\* onFailure() at time t.
naOnFailure(c, t) ==
  LET d == [c EXCEPT !.failureCount = @ + 1, !.lastFailureTime = t]
  IN  IF d.state = HALF_OPEN THEN openCircuit(d, t)
      ELSE IF d.failureCount >= d.failureThreshold THEN openCircuit(d, t)
      ELSE d

\* One synchronous stretch of getUserData(): the client it leaves, whether
\* the promise settled, the error it was rejected with ("" if none), which of
\* onSuccess()/onFailure() ran, whether fetch was called.
NaStep(c, settled, error, ran, fetched) ==
  [c |-> c, settled |-> settled, error |-> error, ran |-> ran,
   fetched |-> fetched]

\* getUserData(userId) at time t up to its first await.
naGetUserData(c, t) ==
  LET d == updateCircuitState(c, t)
  IN  IF d.state = OPEN
      THEN NaStep(d, TRUE, "Circuit breaker is OPEN. Request rejected (Fail Fast)",
                  "none", FALSE)
      ELSE NaStep(d, FALSE, "", "none", TRUE)

\* What fetch can do while the timer is armed, and what response.json()
\* followed by isValidUserData() can do.
NaFetchOutcomes ==
  { Resp(TRUE, 200), Resp(FALSE, 500),
    Throw("AbortError", "This operation was aborted"),
    Throw("TypeError", "fetch failed") }
NaJsonOutcomes == {"user", "invalidJson", "invalidStructure"}

\* getUserData() after makeRequest() threw.
naGetUserDataCatch(c, t, error) ==
  NaStep(naOnFailure(c, t), TRUE, error, "failure", FALSE)

\* makeRequest() and getUserData() resumed at time t by fetch settling.
makeRequestAfterFetch(c, t, o) ==
  IF o.kind = "throw"
  THEN IF o.name = "AbortError"
       THEN naGetUserDataCatch(c, t, "Request timed out")
       ELSE naGetUserDataCatch(c, t, o.message)
  ELSE IF ~o.ok THEN naGetUserDataCatch(c, t, "HTTP 500")
  ELSE NaStep(c, FALSE, "", "none", FALSE)

\* makeRequest() and getUserData() resumed at time t by response.json().
makeRequestAfterJson(c, t, o) ==
  IF o = "user" THEN NaStep(naOnSuccess(c), TRUE, "", "success", FALSE)
  ELSE IF o = "invalidJson"
       THEN naGetUserDataCatch(c, t, "Invalid JSON response")
  ELSE naGetUserDataCatch(c, t, "Invalid user data structure received")

(* ------------------------- part 8: actions ----------------------------- *)
\* pre, preNext: state and nextAttemptTime when the last step began.
NaLast(op, c, ran) ==
  [op |-> op, pre |-> c.state, preNext |-> c.nextAttemptTime, ran |-> ran]

NaInit ==
  /\ \E threshold \in 1..NaMaxThreshold, resetTimeout \in 1..NaMaxReset :
       naClient = NextAttemptClient(threshold, resetTimeout)
  /\ naNow = 1
  /\ naCalls = EmptyBag
  /\ naCount = 0
  /\ naLast = NaLast("init", naClient, "none")
  /\ NoResilientClient /\ NoHttpClient /\ NoJsonClient
  /\ NoTallerClient /\ NoFirstClient /\ NoModule /\ NoRetryClient /\ NoLastClient

NaGetUserData ==
  LET r == naGetUserData(naClient, naNow)
  IN  /\ naCount < NaMaxCalls
      /\ naClient' = r.c
      /\ naCount' = naCount + 1
      /\ naCalls' = IF r.fetched THEN naCalls (+) SetToBag({"fetch"}) ELSE naCalls
      /\ naLast' = NaLast("call", naClient, r.ran)
      /\ UNCHANGED <<naNow, rest8>>

NaSettled(pc, r) ==
  /\ naClient' = r.c
  /\ naCalls' = IF r.settled
                THEN naCalls (-) SetToBag({pc})
                ELSE (naCalls (-) SetToBag({pc})) (+) SetToBag({"json"})
  /\ naLast' = NaLast("settle", naClient, r.ran)
  /\ UNCHANGED <<naNow, naCount, rest8>>

NaFetchSettles ==
  \E o \in NaFetchOutcomes :
    /\ BagIn("fetch", naCalls)
    /\ NaSettled("fetch", makeRequestAfterFetch(naClient, naNow, o))

NaJsonSettles ==
  \E o \in NaJsonOutcomes :
    /\ BagIn("json", naCalls)
    /\ NaSettled("json", makeRequestAfterJson(naClient, naNow, o))

NaTick ==
  /\ naNow < NaMaxTime
  /\ naNow' = naNow + 1
  /\ UNCHANGED <<naClient, naCalls, naCount, naLast, rest8>>

NaNext ==
  \/ NaGetUserData
  \/ NaFetchSettles
  \/ NaJsonSettles
  \/ NaTick

NaSpec == NaInit /\ [][NaNext]_allVars

NaTypeOK ==
  /\ naClient.state \in CircuitState
  /\ naClient.failureCount \in 0..NaMaxCalls
  /\ naClient.lastFailureTime \in 0..NaMaxTime
  /\ naClient.nextAttemptTime \in 0..(NaMaxTime + NaMaxReset)
  /\ naNow \in 1..NaMaxTime
  /\ naCount \in 0..NaMaxCalls
  /\ BagCardinality(naCalls) <= NaMaxCalls

(* --------------------------- part 8: claims ---------------------------- *)
\* C30: nextAttemptTime is set only at the instant of a transition into OPEN
\* (and cleared when the probe closes the circuit); a stale failure reported
\* while the circuit is OPEN leaves nextAttemptTime unchanged, so the instant
\* from which the probe is admitted is never postponed.
C30_NextAttemptTimeSetOnOpening ==
  /\ naClient.nextAttemptTime # naLast.preNext =>
       \/ naLast.pre # OPEN /\ naClient.state = OPEN
       \/ naClient.state = CLOSED /\ naClient.nextAttemptTime = 0
  /\ (naLast.ran = "failure" /\ naLast.pre = OPEN) =>
       naClient.nextAttemptTime = naLast.preNext

(***************************************************************************)
(* Part 9: the second ResilientClient of unnamed/part_006.                 *)
(*                                                                         *)
(* processPayment() fails fast while OPEN and the cooldown runs, and       *)
(* otherwise awaits executeRequest(), which suspends at the fetch (under a *)
(* timer) and at response.json(); onSuccess()/onFailure() run when it      *)
(* returns.                                                                *)
(***************************************************************************)
\* The field initialisers of the class.
PaymentClient ==
  [state |-> CLOSED, failureCount |-> 0, failureThreshold |-> 3,
   resetTimeoutMs |-> 5000, requestTimeoutMs |-> 4000,
   lastFailureTime |-> NULL]

\* onSuccess() of the second client.
payOnSuccess(c) ==
  LET d == [c EXCEPT !.failureCount = 0]
  IN  IF d.state = HALFOPEN THEN [d EXCEPT !.state = CLOSED] ELSE d

\* onFailure() of the second client at time t.
payOnFailure(c, t) ==
  LET d == [c EXCEPT !.failureCount = @ + 1, !.lastFailureTime = t]
  IN  IF d.state = HALFOPEN THEN [d EXCEPT !.state = OPEN]
      ELSE IF d.state = CLOSED /\ d.failureCount >= d.failureThreshold
           THEN [d EXCEPT !.state = OPEN]
      ELSE d

\* One synchronous stretch of processPayment(): the client it leaves,
\* whether the promise settled, the type of the error of the Failure it
\* resolved with ("" if none), retryInMs of a CIRCUIT_OPEN error (NULL
\* otherwise), which of onSuccess()/onFailure() ran, whether fetch was
\* called.
PayStep(c, settled, error, retryInMs, ran, fetched) ==
  [c |-> c, settled |-> settled, error |-> error, retryInMs |-> retryInMs,
   ran |-> ran, fetched |-> fetched]

\* `this.lastFailureTime || 0'
OrZero(time) == IF time = NULL \/ time = 0 THEN 0 ELSE time

\* processPayment() that fails fast up to and including resetTimeoutMs.
processPayment_Inclusive(c, t) ==
  IF c.state = OPEN
  THEN LET timeSinceLastFailure == t - OrZero(c.lastFailureTime)
       IN  IF timeSinceLastFailure <= c.resetTimeoutMs
           THEN PayStep(c, TRUE, "CIRCUIT_OPEN",
                        c.resetTimeoutMs - timeSinceLastFailure, "none", FALSE)
           ELSE PayStep([c EXCEPT !.state = HALFOPEN], FALSE, "", NULL,
                        "none", TRUE)
  ELSE PayStep(c, FALSE, "", NULL, "none", TRUE)

\* processPayment(paymentData) at time t up to its first await.
processPayment(c, t) ==
  IF c.state = OPEN
  THEN LET timeSinceLastFailure == t - OrZero(c.lastFailureTime)
       IN  IF timeSinceLastFailure < c.resetTimeoutMs
           THEN PayStep(c, TRUE, "CIRCUIT_OPEN",
                        c.resetTimeoutMs - timeSinceLastFailure, "none", FALSE)
           ELSE PayStep([c EXCEPT !.state = HALFOPEN], FALSE, "", NULL,
                        "none", TRUE)
  ELSE PayStep(c, FALSE, "", NULL, "none", TRUE)

\* processPayment() resumed at time t by executeRequest() returning
\* Failure(error).
processPaymentFailure(c, t, error) ==
  PayStep(payOnFailure(c, t), TRUE, error, NULL, "failure", FALSE)

\* What fetch can do while the timer is armed, and what response.json() can
\* do.
PayFetchOutcomes ==
  { Resp(TRUE, 200), Resp(FALSE, 500), Resp(FALSE, 404),
    Throw("AbortError", "This operation was aborted"),
    Throw("TypeError", "fetch failed") }
PayJsonOutcomes == {"data", "invalidJson"}

\* executeRequest() and processPayment() resumed at time t by fetch
\* settling with o.
payAfterFetch(c, t, o) ==
  IF o.kind = "throw"
  THEN IF o.name = "AbortError" THEN processPaymentFailure(c, t, "TIMEOUT")
       ELSE processPaymentFailure(c, t, "NETWORK_ERROR")
  ELSE IF o.status >= 500 THEN processPaymentFailure(c, t, "SERVER_ERROR")
  ELSE IF ~o.ok THEN processPaymentFailure(c, t, "HTTP_ERROR")
  ELSE PayStep(c, FALSE, "", NULL, "none", FALSE)

\* executeRequest() and processPayment() resumed at time t by
\* response.json() settling with o.
payAfterJson(c, t, o) ==
  IF o = "data" THEN PayStep(payOnSuccess(c), TRUE, "", NULL, "success", FALSE)
  ELSE processPaymentFailure(c, t, "PARSE_ERROR")

(* ------------------------- part 9: actions ----------------------------- *)
PayRecord(op, r) ==
  payLast' = [op |-> op, error |-> r.error, retryInMs |-> r.retryInMs,
              fetched |-> r.fetched, pre |-> payClient.state,
              sinceFailure |-> payNow - OrZero(payClient.lastFailureTime)]

PayInit ==
  /\ payClient = PaymentClient
  /\ payNow = 0
  /\ payCalls = EmptyBag
  /\ payCount = 0
  /\ payLast = [op |-> "init", error |-> "", retryInMs |-> NULL,
                fetched |-> FALSE, pre |-> CLOSED, sinceFailure |-> 0]
  /\ NoResilientClient /\ NoHttpClient /\ NoJsonClient
  /\ NoTallerClient /\ NoFirstClient /\ NoModule /\ NoRetryClient
  /\ NoNextAttemptClient /\ NoUserDataModule /\ NoUserService

ProcessPayment ==
  LET r == processPayment(payClient, payNow)
  IN  /\ payCount < PayMaxCalls
      /\ payCount' = payCount + 1
      /\ payClient' = r.c
      /\ payCalls' = IF r.fetched THEN payCalls (+) SetToBag({"fetch"})
                     ELSE payCalls
      /\ PayRecord("call", r)
      /\ UNCHANGED <<payNow, rest9>>

PaySettled(pc, r) ==
  /\ payClient' = r.c
  /\ payCalls' = IF r.settled
                 THEN payCalls (-) SetToBag({pc})
                 ELSE (payCalls (-) SetToBag({pc})) (+) SetToBag({"json"})
  /\ PayRecord("settle", r)
  /\ UNCHANGED <<payNow, payCount, rest9>>

PayFetchSettles ==
  \E o \in PayFetchOutcomes :
    /\ BagIn("fetch", payCalls)
    /\ PaySettled("fetch", payAfterFetch(payClient, payNow, o))

PayJsonSettles ==
  \E o \in PayJsonOutcomes :
    /\ BagIn("json", payCalls)
    /\ PaySettled("json", payAfterJson(payClient, payNow, o))

\* The instants of a behaviour: within PayMaxElapsed milliseconds of a
\* whole number of cooldowns after time 0.
PayInstants ==
  { k * PaymentClient.resetTimeoutMs + e :
      k \in 0..PayMaxCooldowns, e \in (0 - PayMaxElapsed)..PayMaxElapsed }
    \cap Nat

\* Time passes; the clock never goes back.
PayAdvance ==
  /\ \E t \in PayInstants : t > payNow /\ payNow' = t
  /\ UNCHANGED <<payClient, payCalls, payCount, payLast, rest9>>

PayNext ==
  \/ ProcessPayment
  \/ PayFetchSettles
  \/ PayJsonSettles
  \/ PayAdvance

PaySpec == PayInit /\ [][PayNext]_allVars

PayTypeOK ==
  /\ payClient.state \in BreakerState
  /\ payClient.failureCount \in 0..PayMaxCalls
  /\ payClient.lastFailureTime \in PayInstants \cup {NULL}
  /\ payNow \in PayInstants
  /\ payCount \in 0..PayMaxCalls
  /\ BagCardinality(payCalls) <= PayMaxCalls

(* --------------------------- part 9: claims ---------------------------- *)
\* C40: with a clock that never goes back, whenever processPayment() fails
\* fast with error type 'CIRCUIT_OPEN' it has made no fetch and the
\* retryInMs it reports satisfies 0 < retryInMs <= resetTimeoutMs.
C40_RetryInMsWithinCooldown ==
  payLast.error = "CIRCUIT_OPEN" =>
    /\ ~payLast.fetched /\ payLast.op = "call"
    /\ 0 < payLast.retryInMs
    /\ payLast.retryInMs <= payClient.resetTimeoutMs
    /\ payLast.retryInMs = payClient.resetTimeoutMs - payLast.sinceFailure

\* A call failed fast in the last millisecond of the cooldown: retryInMs = 1.
C40_Witness ==
  /\ payLast.error = "CIRCUIT_OPEN" /\ payLast.retryInMs = 1
  /\ payClient.state = OPEN /\ payClient.lastFailureTime # NULL

(***************************************************************************)
(* Part 10: CircuitBreaker (unnamed/part_004) and getUserData with the     *)
(* module-level breaker (unnamed/part_007).                                *)
(*                                                                         *)
(* getUserData() asks canRequest(), suspends at the fetch (under a timer)  *)
(* and at response.json(), and reports to the breaker itself; its catch    *)
(* block asks canRequest() again before it reports.                        *)
(***************************************************************************)
\* new CircuitBreaker(failureThreshold, openStateTimeout) at time t.
NewCircuitBreaker(threshold, openStateTimeout, t) ==
  [state |-> CLOSED, failureCount |-> 0, nextAttempt |-> t,
   failureThreshold |-> threshold, openStateTimeout |-> openStateTimeout]

\* canRequest() at time t: the breaker it leaves and what it returns.
canRequest(b, t) ==
  LET b1 == IF b.state = OPEN /\ t > b.nextAttempt
            THEN [b EXCEPT !.state = HALF_OPEN]
            ELSE b
  IN  [b |-> b1, ok |-> b1.state # OPEN]

\* CircuitBreaker.recordFailure() at time t.
cbRecordFailure(b, t) ==
  LET b1 == [b EXCEPT !.failureCount = @ + 1]
  IN  IF b1.failureCount >= b1.failureThreshold
      THEN [b1 EXCEPT !.state = OPEN, !.nextAttempt = t + b1.openStateTimeout]
      ELSE b1

\* CircuitBreaker.recordSuccess()
cbRecordSuccess(b) == [b EXCEPT !.failureCount = 0, !.state = CLOSED]

\* CircuitBreaker.recordHalfOpenFailure() at time t.
recordHalfOpenFailure(b, t) ==
  [b EXCEPT !.state = OPEN, !.nextAttempt = t + b.openStateTimeout]

\* One synchronous stretch of getUserData(): the breaker it leaves, whether
\* the promise settled, whether the request failed, which record method
\* ran, whether fetch was called.
UdStep(b, settled, failed, ran, fetched) ==
  [b |-> b, settled |-> settled, failed |-> failed, ran |-> ran,
   fetched |-> fetched]

\* getUserData(userId) at time t up to its first await.
udGetUserData(b, t) ==
  LET g == canRequest(b, t)
  IN  IF ~g.ok THEN UdStep(g.b, TRUE, FALSE, "none", FALSE)
      ELSE UdStep(g.b, FALSE, FALSE, "none", TRUE)

\* The catch block of getUserData() at time t.
udCatch(b, t) ==
  LET g == canRequest(b, t)
  IN  IF g.ok THEN UdStep(cbRecordFailure(g.b, t), TRUE, TRUE, "failure", FALSE)
      ELSE IF getState(g.b) = HALF_OPEN
      THEN UdStep(recordHalfOpenFailure(g.b, t), TRUE, TRUE,
                  "halfOpenFailure", FALSE)
      ELSE UdStep(g.b, TRUE, TRUE, "none", FALSE)

\* What fetch can do while the timer is armed, and what response.json() can
\* do.
UdFetchOutcomes ==
  { Resp(TRUE, 200), Resp(FALSE, 500),
    Throw("AbortError", "This operation was aborted"),
    Throw("TypeError", "fetch failed") }
UdJsonOutcomes == {"data", "invalidJson", "aborted"}

\* getUserData() resumed at time t by fetch settling with o.
udAfterFetch(b, t, o) ==
  IF o.kind = "throw" THEN udCatch(b, t)
  ELSE IF ~o.ok THEN UdStep(cbRecordFailure(b, t), TRUE, TRUE, "failure", FALSE)
  ELSE UdStep(b, FALSE, FALSE, "none", FALSE)

\* getUserData() resumed at time t by response.json() settling with o.
udAfterJson(b, t, o) ==
  IF o = "data" THEN UdStep(cbRecordSuccess(b), TRUE, FALSE, "success", FALSE)
  ELSE udCatch(b, t)

(* ------------------------- part 10: actions ---------------------------- *)
\* trial: the call of the step was admitted in HALF_OPEN; at: the time of
\* the step.
UdRecord(op, trial, r) ==
  udLast' = [op |-> op, trial |-> trial, failed |-> r.failed, ran |-> r.ran,
             pre |-> circuitBreaker.state, at |-> udNow]

\* The module is loaded at time 1: `new CircuitBreaker(FAILURE_THRESHOLD,
\* OPEN_STATE_TIMEOUT)'.
UdInit ==
  /\ udNow = 1
  /\ circuitBreaker = NewCircuitBreaker(3, 5000, 1)
  /\ udCalls = EmptyBag
  /\ udCount = 0
  /\ udLast = [op |-> "init", trial |-> FALSE, failed |-> FALSE,
               ran |-> "none", pre |-> CLOSED, at |-> 1]
  /\ NoResilientClient /\ NoHttpClient /\ NoJsonClient
  /\ NoTallerClient /\ NoFirstClient /\ NoModule /\ NoRetryClient
  /\ NoNextAttemptClient /\ NoPaymentClient /\ NoUserService

UdGetUserData ==
  LET r == udGetUserData(circuitBreaker, udNow)
      trial == r.fetched /\ r.b.state = HALF_OPEN
  IN  /\ udCount < UdMaxCalls
      /\ udCount' = udCount + 1
      /\ circuitBreaker' = r.b
      /\ udCalls' = IF r.fetched
                    THEN udCalls (+) SetToBag({[pc |-> "fetch", trial |-> trial]})
                    ELSE udCalls
      /\ UdRecord("call", trial, r)
      /\ UNCHANGED <<udNow, rest10>>

UdSettled(q, r) ==
  /\ circuitBreaker' = r.b
  /\ udCalls' = IF r.settled
                THEN udCalls (-) SetToBag({q})
                ELSE (udCalls (-) SetToBag({q}))
                       (+) SetToBag({[q EXCEPT !.pc = "json"]})
  /\ UdRecord(IF r.settled THEN "settle" ELSE "resume", q.trial, r)
  /\ UNCHANGED <<udNow, udCount, rest10>>

UdFetchSettles ==
  \E q \in BagToSet(udCalls), o \in UdFetchOutcomes :
    /\ q.pc = "fetch"
    /\ UdSettled(q, udAfterFetch(circuitBreaker, udNow, o))

UdJsonSettles ==
  \E q \in BagToSet(udCalls), o \in UdJsonOutcomes :
    /\ q.pc = "json"
    /\ UdSettled(q, udAfterJson(circuitBreaker, udNow, o))

\* The instants of a behaviour: up to UdMaxElapsed milliseconds after a
\* whole number of cooldowns after the load at time 1.
UdInstants ==
  { 1 + e + k * circuitBreaker.openStateTimeout :
      e \in 0..UdMaxElapsed, k \in 0..UdMaxCooldowns }

UdAdvance ==
  /\ \E t \in UdInstants : t > udNow /\ udNow' = t
  /\ UNCHANGED <<circuitBreaker, udCalls, udCount, udLast, rest10>>

UdNext ==
  \/ UdGetUserData
  \/ UdFetchSettles
  \/ UdJsonSettles
  \/ UdAdvance

UdSpec == UdInit /\ [][UdNext]_allVars

UdTypeOK ==
  /\ circuitBreaker.state \in CircuitState
  /\ circuitBreaker.failureCount \in 0..UdMaxCalls
  /\ udNow \in UdInstants
  /\ udCount \in 0..UdMaxCalls
  /\ BagCardinality(udCalls) <= UdMaxCalls

(* --------------------------- part 10: claims --------------------------- *)
\* C32: when the trial request made in HALF_OPEN fails (a non-ok response,
\* a thrown network error or a timeout), the breaker is OPEN afterwards
\* with nextAttempt = the time of that failure + openStateTimeout.
C32_FailedTrialReopens ==
  (udLast.op = "settle" /\ udLast.trial /\ udLast.failed) =>
    /\ circuitBreaker.state = OPEN
    /\ circuitBreaker.nextAttempt = udLast.at + circuitBreaker.openStateTimeout

(***************************************************************************)
(* Part 11: CircuitBreaker<T> as UserService uses it                       *)
(* (taller/src/found-vulnerabilities.md, taller/src/architecture.md).      *)
(*                                                                         *)
(* UserService.getUserData() passes httpClient.get() to execute(), which   *)
(* runs checkAndUpdateState(), fails fast when the state cannot execute,   *)
(* and otherwise awaits the operation and runs onSuccess()/onFailure().    *)
(***************************************************************************)
\* The field initialisers of CircuitBreaker<T>.
ServiceBreaker ==
  [state |-> CLOSED, failureCount |-> 0, lastFailureTime |-> NULL,
   FAILURE_THRESHOLD |-> 3, TIMEOUT_DURATION |-> 5000]

\* stateTransitions.get(st)
stateTransitions(st) ==
  IF st = CLOSED
  THEN [onSuccess |-> CLOSED, onFailure |-> CLOSED, canExecute |-> TRUE]
  ELSE IF st = OPEN
  THEN [onSuccess |-> OPEN, onFailure |-> OPEN, canExecute |-> FALSE]
  ELSE [onSuccess |-> CLOSED, onFailure |-> OPEN, canExecute |-> TRUE]

\* shouldAttemptReset() at time t.
shouldAttemptReset(b, t) ==
  IF b.lastFailureTime = NULL THEN FALSE
  ELSE t - b.lastFailureTime >= b.TIMEOUT_DURATION

\* checkAndUpdateState() at time t.
checkAndUpdateState(b, t) ==
  IF b.state = OPEN /\ shouldAttemptReset(b, t)
  THEN [b EXCEPT !.state = HALF_OPEN]
  ELSE b

\* onSuccess() of CircuitBreaker<T>.
svcOnSuccess(b) ==
  [b EXCEPT !.state = stateTransitions(b.state).onSuccess,
            !.failureCount = 0, !.lastFailureTime = NULL]

\* onFailure() of CircuitBreaker<T> at time t.
svcOnFailure(b, t) ==
  LET b1 == [b EXCEPT !.failureCount = @ + 1, !.lastFailureTime = t]
      shouldOpen == b1.failureCount >= b1.FAILURE_THRESHOLD
  IN  [b1 EXCEPT !.state = IF shouldOpen THEN OPEN
                           ELSE stateTransitions(b1.state).onFailure]

\* execute(operation) at time t up to `await operation()': the breaker it
\* leaves and whether the operation was started (CircuitBreakerError is
\* thrown otherwise).
svcExecute(b, t) ==
  LET b1 == checkAndUpdateState(b, t)
  IN  [b |-> b1, ok |-> stateTransitions(b1.state).canExecute]

\* execute() resumed at time t by the operation settling.
svcExecuteSettle(b, t, ok) ==
  IF ok THEN svcOnSuccess(b) ELSE svcOnFailure(b, t)

(* ------------------------- part 11: actions ---------------------------- *)
SvcInit ==
  /\ svcBreaker = ServiceBreaker
  /\ svcNow = 1
  /\ svcCalls = 0
  /\ svcCount = 0
  /\ svcLast = [op |-> "init", pre |-> CLOSED]
  /\ NoResilientClient /\ NoHttpClient /\ NoJsonClient
  /\ NoTallerClient /\ NoFirstClient /\ NoModule /\ NoRetryClient
  /\ NoNextAttemptClient /\ NoPaymentClient /\ NoUserDataModule

\* A caller invokes UserService.getUserData(userId).
SvcGetUserData ==
  LET r == svcExecute(svcBreaker, svcNow)
  IN  /\ svcCount < SvcMaxCalls
      /\ svcCount' = svcCount + 1
      /\ svcBreaker' = r.b
      /\ svcCalls' = IF r.ok THEN svcCalls + 1 ELSE svcCalls
      /\ svcLast' = [op |-> IF r.ok THEN "admitted" ELSE "failFast",
                     pre |-> svcBreaker.state]
      /\ UNCHANGED <<svcNow, rest11>>

\* httpClient.get() of a suspended call resolves (ok) or rejects.
SvcOperationSettles ==
  \E ok \in BOOLEAN :
    /\ svcCalls > 0
    /\ svcCalls' = svcCalls - 1
    /\ svcBreaker' = svcExecuteSettle(svcBreaker, svcNow, ok)
    /\ svcLast' = [op |-> IF ok THEN "success" ELSE "failure",
                   pre |-> svcBreaker.state]
    /\ UNCHANGED <<svcNow, svcCount, rest11>>

\* The instants of a behaviour: up to SvcMaxElapsed milliseconds after a
\* whole number of cooldowns after the construction at time 1.
SvcInstants ==
  { 1 + e + k * ServiceBreaker.TIMEOUT_DURATION :
      e \in 0..SvcMaxElapsed, k \in 0..SvcMaxCooldowns }

SvcAdvance ==
  /\ \E t \in SvcInstants : t > svcNow /\ svcNow' = t
  /\ UNCHANGED <<svcBreaker, svcCalls, svcCount, svcLast, rest11>>

SvcNext ==
  \/ SvcGetUserData
  \/ SvcOperationSettles
  \/ SvcAdvance

SvcSpec == SvcInit /\ [][SvcNext]_allVars

SvcTypeOK ==
  /\ svcBreaker.state \in CircuitState
  /\ svcBreaker.failureCount \in 0..SvcMaxCalls
  /\ svcBreaker.lastFailureTime \in SvcInstants \cup {NULL}
  /\ svcNow \in SvcInstants
  /\ svcCalls \in 0..SvcMaxCalls
  /\ svcCount \in 0..SvcMaxCalls

(* --------------------------- part 11: claims --------------------------- *)
\* C37: whenever the state is OPEN, lastFailureTime is not null, so that
\* shouldAttemptReset() is true TIMEOUT_DURATION ms after the last failure
\* and the breaker cannot stay OPEN for ever, under every interleaving of
\* concurrent execute() calls.
C37_OpenHasLastFailureTime ==
  svcBreaker.state = OPEN =>
    /\ svcBreaker.lastFailureTime # NULL
    /\ shouldAttemptReset(svcBreaker, svcBreaker.lastFailureTime
                                        + svcBreaker.TIMEOUT_DURATION)

====
